---- MODULE Spec2Model ----
(***************************************************************************)
(* GalAirport: a local visual-novel library manager.                       *)
(*                                                                         *)
(* The parts of the program that are modelled, each with its own           *)
(* specification over the same variables:                                  *)
(*   SpecPlay  - the games / play_sessions tables, the launch handler and  *)
(*               the playtime_session_ended listener (database.ts, App);   *)
(*   SpecTags  - translateTags and the tag_translations cache              *)
(*               (deepseek.ts, database.ts, SettingsDialog);               *)
(*   Spec      - the ScanDialog import pipeline: bulk matching of the      *)
(*               detected folders against the catalog and its enrichment;  *)
(*   SpecApply - the VndbMatchDialog: search, selection and handleApply    *)
(*               for one library entry;                                    *)
(*   SpecReview - the review phase of the ScanDialog (panel search, manual *)
(*               pick, clear) and the import, from the states the bulk     *)
(*               matching ends in;                                         *)
(*   SpecWriters - translateTags calls that overlap;                       *)
(*   SpecBatch - setTagTranslations as a function of table and batch.      *)
(* Every await of the source is a step boundary; the external calls        *)
(* (database, catalog, downloads, translator) return or throw              *)
(* nondeterministically.                                                   *)
(***************************************************************************)
EXTENDS Integers, Sequences, FiniteSets, TLC

VARIABLES
    games,            \* games table: id -> [total_playtime]
    play_sessions,    \* play_sessions table: sequence of [game_id, duration]
    nextGameId,       \* number of ids generateId() has handed out
    listeners,        \* playtime_session_ended handlers: slot -> [pc, game_id, duration]
    evCount,          \* number of playtime_session_ended events delivered
    launching,        \* handleLaunchGame calls awaiting invoke("launch_game")
    direct,           \* handleLaunch calls of the list row and the detail panel awaiting it
    runningGameId,    \* App state runningGameId (0 = null)
    tag_translations, \* tag_translations table: en -> zh
    calls,            \* translateTags calls: slot -> call record
    cur,              \* slot of the translateTags call started last (0 = none)
    items,            \* ScanDialog state items
    phase,            \* ScanDialog state phase
    activeIdx,        \* ScanDialog state activeIdx (0 = null)
    sm,               \* the startMatching call: [pc, i, total, apiKey, res, vn, log,
                      \*   titles (of the items it was started on), query]
    scanning,         \* the handleAddFolders call awaiting scan_games
    gameRow,          \* the games row of the entry the match dialog is opened for
    vndbMatchGame,    \* App state vndbMatchGame: the Game handed to VndbMatchDialog
    md,               \* VndbMatchDialog state and its handleApply call
    applyCount,       \* number of handleApply calls made
    panel,            \* ScanDialog state panelQuery, panelSearching, panelResults
    picks,            \* pickCandidate calls: slot -> call record
    imp,              \* the handleImport call and App.handleScanImport behind it
    sb,               \* setTagTranslations applied to a batch: [pairs, before, once, runs]
    fx                \* a call of a function of vndb.ts: its arguments and its result

playVars == <<games, play_sessions, nextGameId, listeners, evCount, launching, direct,
              runningGameId>>
tagVars == <<tag_translations, calls, cur>>
scanVars == <<items, phase, activeIdx, sm, scanning>>
matchVars == <<gameRow, vndbMatchGame, md, applyCount>>
reviewVars == <<panel, picks, imp>>
batchVars == <<sb, fx>>
vars == <<games, play_sessions, nextGameId, listeners, evCount, launching, direct, runningGameId,
          tag_translations, calls, cur, items, phase, activeIdx, sm, scanning,
          gameRow, vndbMatchGame, md, applyCount, panel, picks, imp, sb, fx>>

(***************************************************************************)
(* Bounds                                                                  *)
(***************************************************************************)
MaxGames == 2
MaxEvents == 2
MaxDuration == 2
MaxCalls == 2
MaxTags == 2
MaxItems == 2
MaxApplies == 1
MaxPicks == 1
MaxSearches == 1
MaxPairs == 2
MaxRuns == 2
MaxTagList == 3
MaxCountArg == 2
MaxTitles == 3

NoGame == 0

RECURSIVE SumSeq(_)
SumSeq(s) == IF s = <<>> THEN 0 ELSE Head(s) + SumSeq(Tail(s))

(***************************************************************************)
(* Part 1: games, play_sessions and the session-ended listener             *)
(***************************************************************************)
GameIds == 1..MaxGames
Durations == 0..MaxDuration

IdleListener == [pc |-> "none", game_id |-> NoGame, duration |-> 0]

InitPlay ==
    /\ games = <<>>
    /\ play_sessions = <<>>
    /\ nextGameId = 0
    /\ listeners = [h \in 1..MaxEvents |-> IdleListener]
    /\ evCount = 0
    /\ launching = {}
    /\ direct = {}
    /\ runningGameId = NoGame

\* SELECT of the play_sessions rows of one game, as their durations
SessionDurations(g) ==
    LET rows == SelectSeq(play_sessions, LAMBDA r : r.game_id = g)
    IN [k \in 1..Len(rows) |-> rows[k].duration]

\* db.addGame: INSERT INTO games (..., total_playtime, ...) VALUES (..., 0, ...)
addGame ==
    /\ nextGameId < MaxGames
    /\ nextGameId' = nextGameId + 1
    /\ games' = [g \in (DOMAIN games) \cup {nextGameId + 1} |->
                    IF g = nextGameId + 1 THEN [total_playtime |-> 0] ELSE games[g]]
    /\ UNCHANGED <<play_sessions, listeners, evCount, launching, runningGameId>>
    /\ UNCHANGED <<direct, tagVars, scanVars, matchVars, reviewVars, batchVars>>

\* db.deleteGame: DELETE FROM games; play_sessions rows go with ON DELETE CASCADE
deleteGame(g) ==
    /\ g \in DOMAIN games
    /\ games' = [x \in (DOMAIN games) \ {g} |-> games[x]]
    /\ play_sessions' = SelectSeq(play_sessions, LAMBDA r : r.game_id # g)
    /\ UNCHANGED <<nextGameId, listeners, evCount, launching, runningGameId>>
    /\ UNCHANGED <<direct, tagVars, scanVars, matchVars, reviewVars, batchVars>>

\* App.handleLaunchGame up to its await of invoke("launch_game")
handleLaunchGame(g) ==
    /\ g \in DOMAIN games
    /\ runningGameId = NoGame
    /\ g \notin launching
    /\ launching' = launching \cup {g}
    /\ UNCHANGED <<games, play_sessions, nextGameId, listeners, evCount, runningGameId>>
    /\ UNCHANGED <<direct, tagVars, scanVars, matchVars, reviewVars, batchVars>>

\* invoke("launch_game") resolves: setRunningGameId(game.id); or rejects: logged
launchReturn(g, ok) ==
    /\ g \in launching
    /\ launching' = launching \ {g}
    /\ runningGameId' = IF ok THEN g ELSE runningGameId
    /\ UNCHANGED <<games, play_sessions, nextGameId, listeners, evCount>>
    /\ UNCHANGED <<direct, tagVars, scanVars, matchVars, reviewVars, batchVars>>

\* a playtime_session_ended event reaches the listener: the handler starts
sessionEnded(g, d) ==
    /\ evCount < MaxEvents
    /\ g \in 1..nextGameId
    /\ evCount' = evCount + 1
    /\ listeners' = [listeners EXCEPT ![evCount + 1] =
                        [pc |-> IF d > 0 THEN "insert" ELSE "clear",
                         game_id |-> g, duration |-> d]]
    /\ UNCHANGED <<games, play_sessions, nextGameId, launching, runningGameId>>
    /\ UNCHANGED <<direct, tagVars, scanVars, matchVars, reviewVars, batchVars>>

\* addPlaySession, first statement: INSERT INTO play_sessions; a rejected
\* statement rejects the handler, which then never reaches setRunningGameId
insertSession(h, ok) ==
    /\ listeners[h].pc = "insert"
    /\ IF ok
       THEN /\ play_sessions' = Append(play_sessions,
                    [game_id |-> listeners[h].game_id, duration |-> listeners[h].duration])
            /\ listeners' = [listeners EXCEPT ![h].pc = "update"]
       ELSE /\ listeners' = [listeners EXCEPT ![h].pc = "rejected"]
            /\ UNCHANGED play_sessions
    /\ UNCHANGED <<games, nextGameId, evCount, launching, runningGameId>>
    /\ UNCHANGED <<direct, tagVars, scanVars, matchVars, reviewVars, batchVars>>

\* addPlaySession, second statement:
\* UPDATE games SET total_playtime = total_playtime + $1 WHERE id = $3
updatePlaytime(h, ok) ==
    /\ listeners[h].pc = "update"
    /\ IF ok
       THEN /\ games' = [g \in DOMAIN games |->
                    IF g = listeners[h].game_id
                    THEN [games[g] EXCEPT !.total_playtime = @ + listeners[h].duration]
                    ELSE games[g]]
            /\ listeners' = [listeners EXCEPT ![h].pc = "clear"]
       ELSE /\ listeners' = [listeners EXCEPT ![h].pc = "rejected"]
            /\ UNCHANGED games
    /\ UNCHANGED <<play_sessions, nextGameId, evCount, launching, runningGameId>>
    /\ UNCHANGED <<direct, tagVars, scanVars, matchVars, reviewVars, batchVars>>

\* the end of the handler: library.refresh() and setRunningGameId(null)
clearRunning(h) ==
    /\ listeners[h].pc = "clear"
    /\ listeners' = [listeners EXCEPT ![h].pc = "done"]
    /\ runningGameId' = NoGame
    /\ UNCHANGED <<games, play_sessions, nextGameId, evCount, launching>>
    /\ UNCHANGED <<direct, tagVars, scanVars, matchVars, reviewVars, batchVars>>

\* GameListRow.handleLaunch and GameDetail.handleLaunch up to their await of
\* invoke("launch_game", { exePath }): neither reads runningGameId or
\* isRunning, and no gameId is passed
GameListRow_handleLaunch(g) ==
    /\ g \in DOMAIN games
    /\ g \notin direct
    /\ direct' = direct \cup {g}
    /\ UNCHANGED <<games, play_sessions, nextGameId, listeners, evCount, launching, runningGameId>>
    /\ UNCHANGED <<tagVars, scanVars, matchVars, reviewVars, batchVars>>

GameDetail_handleLaunch(g) ==
    /\ g \in DOMAIN games
    /\ g \notin direct
    /\ direct' = direct \cup {g}
    /\ UNCHANGED <<games, play_sessions, nextGameId, listeners, evCount, launching, runningGameId>>
    /\ UNCHANGED <<tagVars, scanVars, matchVars, reviewVars, batchVars>>

\* their invoke resolves, or rejects and is logged: no state is set
directReturn(g) ==
    /\ g \in direct
    /\ direct' = direct \ {g}
    /\ UNCHANGED <<games, play_sessions, nextGameId, listeners, evCount, launching, runningGameId>>
    /\ UNCHANGED <<tagVars, scanVars, matchVars, reviewVars, batchVars>>

NextPlay ==
    \/ addGame
    \/ \E g \in GameIds : deleteGame(g)
    \/ \E g \in GameIds : handleLaunchGame(g)
    \/ \E g \in GameIds, ok \in BOOLEAN : launchReturn(g, ok)
    \/ \E g \in GameIds, d \in Durations : sessionEnded(g, d)
    \/ \E h \in 1..MaxEvents, ok \in BOOLEAN : insertSession(h, ok)
    \/ \E h \in 1..MaxEvents, ok \in BOOLEAN : updatePlaytime(h, ok)
    \/ \E h \in 1..MaxEvents : clearRunning(h)

\* every launch control: the card (handleLaunchGame), the list row and the
\* detail panel
NextLaunch ==
    \/ addGame
    \/ \E g \in GameIds : handleLaunchGame(g)
    \/ \E g \in GameIds, ok \in BOOLEAN : launchReturn(g, ok)
    \/ \E g \in GameIds : GameListRow_handleLaunch(g)
    \/ \E g \in GameIds : GameDetail_handleLaunch(g)
    \/ \E g \in GameIds : directReturn(g)
    \/ \E g \in GameIds, d \in Durations : sessionEnded(g, d)
    \/ \E h \in 1..MaxEvents, ok \in BOOLEAN : insertSession(h, ok)
    \/ \E h \in 1..MaxEvents, ok \in BOOLEAN : updatePlaytime(h, ok)
    \/ \E h \in 1..MaxEvents : clearRunning(h)

(***************************************************************************)
(* Part 2: translateTags and the tag_translations cache                    *)
(***************************************************************************)
Tags == {"a", "b"}
\* what the translator may give for a tag ("" is also the column's default),
\* and what the persisted table may hold for it when the program starts
Zhs == {"", "x"}
StoredZhs == {"y"}
ApiKeys == {"", " ", "k"}

\* all sequences over S of length 0..n
SeqsUpTo(S, n) == UNION {[1..k -> S] : k \in 0..n}

TagLists == SeqsUpTo(Tags, MaxTags)
\* what the translator may answer: any list, of the right length or not
Replies == SeqsUpTo(Zhs, MaxTags + 1)
\* the contents the persisted table may have when the program starts
CacheContents == UNION {[D -> StoredZhs] : D \in SUBSET Tags}

\* String.prototype.trim on the credentials of ApiKeys
Trim(s) == IF s = " " THEN "" ELSE s

IdleCall ==
    [pc |-> "idle", tags |-> <<>>, apiKey |-> "", hits |-> <<>>, cached |-> <<>>,
     uncached |-> <<>>, translated |-> <<>>, k |-> 0, result |-> <<>>,
     invoked |-> 0, batch |-> <<>>, outcome |-> "none", dbBefore |-> <<>>]

InitCalls ==
    /\ calls = [c \in 1..MaxCalls |-> IdleCall]
    /\ cur = 0

\* getTagTranslations: SELECT en, zh FROM tag_translations WHERE en IN (tags)
getTagTranslations(table, tags) ==
    [en \in (DOMAIN table) \cap {tags[i] : i \in DOMAIN tags} |-> table[en]]

\* INSERT INTO tag_translations (en, zh) ... ON CONFLICT(en) DO UPDATE SET zh = $2
UpsertDropped(table, en, zh) == table
UpsertIgnore(table, en, zh) ==
    [e \in (DOMAIN table) \cup {en} |-> IF e \in DOMAIN table THEN table[e] ELSE zh]
Upsert(table, en, zh) ==
    [e \in (DOMAIN table) \cup {en} |-> IF e = en THEN zh ELSE table[e]]

\* tags.filter((t) => !cached.has(t))
UncachedAll(tags, cached) == tags
Uncached(tags, cached) == SelectSeq(tags, LAMBDA t : t \notin DOMAIN cached)

\* for (i ...) cached.set(uncached[i], translated[i]), from pair k on
RECURSIVE CachedSet(_, _, _, _)
CachedSet(cached, uncached, translated, k) ==
    IF k > Len(uncached) THEN cached
    ELSE CachedSet(Upsert(cached, uncached[k], translated[k]), uncached, translated, k + 1)

\* tags.map((t) => cached.get(t) || t): a missing or empty value gives the tag
ResultOfByRank(tags, cached) ==
    [i \in DOMAIN tags |->
        LET j == Len(tags) + 1 - i
        IN IF tags[j] \in DOMAIN cached /\ cached[tags[j]] # "" THEN cached[tags[j]] ELSE tags[j]]
ResultOf(tags, cached) ==
    [i \in DOMAIN tags |->
        IF tags[i] \in DOMAIN cached /\ cached[tags[i]] # "" THEN cached[tags[i]] ELSE tags[i]]

CallFinished(c) == calls[c].pc \in {"idle", "done", "raised"}

\* translateTags(tags, apiKey) is called: `if (!tags.length) return tags`,
\* else it goes on to its cache lookup. Calls are made one after the other;
\* the record of a call is kept until the call after the next one starts.
translateTagsCall(tags, apiKey) ==
    /\ cur < MaxCalls
    /\ \A c \in 1..MaxCalls : CallFinished(c)
    /\ cur' = cur + 1
    /\ calls' = [c \in 1..MaxCalls |->
                    IF c = cur + 1
                    THEN [IdleCall EXCEPT !.tags = tags, !.apiKey = apiKey,
                                          !.dbBefore = tag_translations,
                                          !.pc = IF Len(tags) = 0 THEN "done" ELSE "lookup",
                                          !.result = tags]
                    ELSE IF c = cur THEN calls[c] ELSE IdleCall]
    /\ UNCHANGED tag_translations
    /\ UNCHANGED <<playVars, scanVars, matchVars, reviewVars, batchVars>>

\* await getTagTranslations(tags) returns (or rejects: translateTags raises),
\* then the split and the test `uncached.length > 0 && apiKey.trim()`
lookupReturn(c, ok) ==
    /\ calls[c].pc = "lookup"
    /\ IF ok
       THEN LET cached == getTagTranslations(tag_translations, calls[c].tags)
                uncached == Uncached(calls[c].tags, cached)
                goes == Len(uncached) > 0 /\ Trim(calls[c].apiKey) # ""
            IN calls' = [calls EXCEPT ![c].hits = cached, ![c].cached = cached,
                                      ![c].uncached = uncached,
                                      ![c].invoked = IF goes THEN @ + 1 ELSE @,
                                      ![c].batch = IF goes THEN uncached ELSE @,
                                      ![c].pc = IF goes THEN "invoke" ELSE "done",
                                      ![c].result = ResultOf(calls[c].tags, cached)]
       ELSE calls' = [calls EXCEPT ![c].pc = "raised"]
    /\ UNCHANGED <<tag_translations, cur>>
    /\ UNCHANGED <<playVars, scanVars, matchVars, reviewVars, batchVars>>

\* the pending invoke("deepseek_translate_tags", {apiKey, tags: uncached})
\* resolves with reply
translatorReturns(c, reply) ==
    /\ calls[c].pc = "invoke"
    /\ Len(reply) <= Len(calls[c].uncached) + 1
    /\ IF Len(reply) = Len(calls[c].uncached)
       THEN calls' = [calls EXCEPT ![c].outcome = "ok", ![c].translated = reply,
                                   ![c].k = 1, ![c].pc = "store"]
       ELSE calls' = [calls EXCEPT ![c].outcome = "badlen", ![c].pc = "done",
                                   ![c].result = ResultOf(calls[c].tags, calls[c].cached)]
    /\ UNCHANGED <<tag_translations, cur>>
    /\ UNCHANGED <<playVars, scanVars, matchVars, reviewVars, batchVars>>

\* the invoke rejects: `catch { }`, uncached tags stay as they are
translatorThrowsRaise(c) ==
    /\ calls[c].pc = "invoke"
    /\ calls' = [calls EXCEPT ![c].outcome = "throw", ![c].pc = "raised"]
    /\ UNCHANGED <<tag_translations, cur>>
    /\ UNCHANGED <<playVars, scanVars, matchVars, reviewVars, batchVars>>
translatorThrows(c) ==
    /\ calls[c].pc = "invoke"
    /\ calls' = [calls EXCEPT ![c].outcome = "throw", ![c].pc = "done",
                              ![c].result = ResultOf(calls[c].tags, calls[c].cached)]
    /\ UNCHANGED <<tag_translations, cur>>
    /\ UNCHANGED <<playVars, scanVars, matchVars, reviewVars, batchVars>>

\* setTagTranslations(pairs): one awaited upsert per pair. After the last one
\* the pairs are put into `cached`; a rejected upsert is caught by the try, so
\* the rows written so far stay and `cached` is not updated.
storePair(c, ok) ==
    /\ calls[c].pc = "store"
    /\ LET k == calls[c].k
           last == k = Len(calls[c].uncached)
           merged == CachedSet(calls[c].cached, calls[c].uncached, calls[c].translated, 1)
       IN IF ok
          THEN /\ tag_translations' =
                      Upsert(tag_translations, calls[c].uncached[k], calls[c].translated[k])
               /\ calls' = IF last
                           THEN [calls EXCEPT ![c].cached = merged, ![c].pc = "done",
                                              ![c].outcome = "stored",
                                              ![c].result = ResultOf(calls[c].tags, merged)]
                           ELSE [calls EXCEPT ![c].k = k + 1]
          ELSE /\ calls' = [calls EXCEPT ![c].pc = "done", ![c].outcome = "storefail",
                                         ![c].result = ResultOf(calls[c].tags, calls[c].cached)]
               /\ UNCHANGED tag_translations
    /\ UNCHANGED cur
    /\ UNCHANGED <<playVars, scanVars, matchVars, reviewVars, batchVars>>

\* translateTags is called while other calls are running: the sub-tasks of
\* two picks, or of a pick and of the match dialog, overlap. The credential
\* is set, or no call would write.
WriterTagLists == {<<"a">>, <<"b", "a">>}
translateTagsTask(tags) ==
    /\ cur < MaxCalls
    /\ cur' = cur + 1
    /\ calls' = [calls EXCEPT ![cur + 1] =
                    [IdleCall EXCEPT !.tags = tags, !.apiKey = "k",
                                     !.dbBefore = tag_translations, !.pc = "lookup",
                                     !.result = tags]]
    /\ UNCHANGED tag_translations
    /\ UNCHANGED <<playVars, scanVars, matchVars, reviewVars, batchVars>>

NextTags ==
    \/ \E tags \in TagLists, apiKey \in ApiKeys : translateTagsCall(tags, apiKey)
    \/ \E c \in 1..MaxCalls, ok \in BOOLEAN : lookupReturn(c, ok)
    \/ \E c \in 1..MaxCalls, reply \in Replies : translatorReturns(c, reply)
    \/ \E c \in 1..MaxCalls : translatorThrows(c)
    \/ \E c \in 1..MaxCalls, ok \in BOOLEAN : storePair(c, ok)

NextWriters ==
    \/ \E tags \in WriterTagLists : translateTagsTask(tags)
    \/ \E c \in 1..MaxCalls, ok \in BOOLEAN : lookupReturn(c, ok)
    \/ \E c \in 1..MaxCalls, reply \in Replies : translatorReturns(c, reply)
    \/ \E c \in 1..MaxCalls : translatorThrows(c)
    \/ \E c \in 1..MaxCalls, ok \in BOOLEAN : storePair(c, ok)


(***************************************************************************)
(* Part 3: the catalog and the enrichment sub-tasks                        *)
(*                                                                         *)
(* Ratings are in tenths (tags.rating 1.5 is 15). A downloaded file is     *)
(* named after the image id, so a local path is modelled by that id.       *)
(***************************************************************************)
DefaultMaxSpoiler == 0
DefaultMaxCount == 8
MinTagRating == 15
SafeBelow == 1
MaxScreenshots == 4

Shot(id, sexual, violence) == [id |-> id, sexual |-> sexual, violence |-> violence]
Tag(name, rating, spoiler, category) ==
    [name |-> name, rating |-> rating, spoiler |-> spoiler, category |-> category]

\* VndbVn; id "" stands for null. image: whether image.url is present;
\* description "" stands for null.
NullVn ==
    [id |-> "", image |-> FALSE, screenshots |-> <<>>, description |-> "",
     tags |-> <<>>, developers |-> <<>>]

\* summary records as searchVn returns them (developers: [])
V1 ==
    [id |-> "v1", image |-> TRUE,
     screenshots |-> <<Shot("s1", 0, 0), Shot("s2", 1, 0)>>,
     description |-> "d1",
     tags |-> <<Tag("e", 30, 0, "ero"), Tag("l", 10, 0, "tech"),
                Tag("a", 20, 0, "cont"), Tag("s", 25, 1, "cont")>>,
     developers |-> <<>>]
V2 ==
    [id |-> "v2", image |-> FALSE, screenshots |-> <<>>, description |-> "",
     tags |-> <<>>, developers |-> <<>>]
V3 ==
    [id |-> "v3", image |-> TRUE,
     screenshots |-> <<Shot("s1", 0, 0), Shot("s2", 2, 0), Shot("s3", 0, 0), Shot("s4", 0, 1),
                       Shot("s5", 0, 0), Shot("s6", 0, 0), Shot("s7", 0, 0)>>,
     description |-> "d3",
     tags |-> <<Tag("b", 20, 0, "cont"), Tag("a", 25, 0, "cont")>>,
     developers |-> <<>>]

\* what searchVn may resolve with for a folder title in the import dialog
SearchResults == {<<>>, <<V1>>, <<V2, V1>>}

\* getVnById's record: the summary fields plus the developers fetchDevelopers
\* found
Developers == <<"dev">>
DetailOf(vn, devs) == [vn EXCEPT !.developers = devs]

\* Array.prototype.sort((a, b) => b.rating - a.rating): stable, descending
RECURSIVE InsertByRating(_, _)
InsertByRating(t, sorted) ==
    IF sorted = <<>> THEN <<t>>
    ELSE IF Head(sorted).rating >= t.rating
         THEN <<Head(sorted)>> \o InsertByRating(t, Tail(sorted))
         ELSE <<t>> \o sorted

RECURSIVE SortByRating(_)
SortByRating(ts) ==
    IF ts = <<>> THEN <<>>
    ELSE InsertByRating(ts[Len(ts)], SortByRating(SubSeq(ts, 1, Len(ts) - 1)))

\* slice(0, n)
Slice(s, n) == SubSeq(s, 1, IF Len(s) < n THEN Len(s) ELSE n)

extractTagsUnsorted(tags, maxSpoiler, maxCount) ==
    LET kept == SelectSeq(tags, LAMBDA t :
                    t.spoiler <= maxSpoiler /\ t.category # "ero" /\ t.rating >= MinTagRating)
        top == Slice(kept, maxCount)
    IN [i \in DOMAIN top |-> top[i].name]
extractTags(tags, maxSpoiler, maxCount) ==
    LET kept == SelectSeq(tags, LAMBDA t :
                    t.spoiler <= maxSpoiler /\ t.category # "ero" /\ t.rating >= MinTagRating)
        top == Slice(SortByRating(kept), maxCount)
    IN [i \in DOMAIN top |-> top[i].name]

\* cleanDescription / the translator's answer, for the descriptions of the catalog
cleanDescription(desc) ==
    CASE desc = "d1" -> "d1 cleaned"
      [] desc = "d3" -> "d3 cleaned"
      [] OTHER -> ""
Translated(desc) ==
    CASE desc = "d1" -> "d1 translated"
      [] desc = "d3" -> "d3 translated"
      [] OTHER -> ""

\* coverPromise: download_cover when image.url is present; a failed download
\* is reported by a toast and gives the fallback
coverPromise(vn, ok, fallback) ==
    IF vn.image /\ ok THEN vn.id ELSE fallback

\* the screenshots a download is requested for
safeScreenshotsAnyViolence(vn) ==
    Slice(SelectSeq(vn.screenshots, LAMBDA ss : ss.sexual < SafeBelow), MaxScreenshots)
safeScreenshots(vn) ==
    Slice(SelectSeq(vn.screenshots, LAMBDA ss : ss.sexual < SafeBelow /\ ss.violence < SafeBelow),
          MaxScreenshots)

\* screenshotsPromise: Promise.allSettled over the downloads, the fulfilled
\* ones kept in order. oks[j] tells whether download j resolved.
RECURSIVE Fulfilled(_, _)
Fulfilled(safe, oks) ==
    IF safe = <<>> THEN <<>>
    ELSE (IF Head(oks) THEN <<Head(safe).id>> ELSE <<>>) \o Fulfilled(Tail(safe), Tail(oks))

screenshotsAllOrNothing(vn, oks) ==
    IF \A j \in DOMAIN oks : oks[j] THEN Fulfilled(safeScreenshots(vn), oks) ELSE <<>>
screenshotsPromise(vn, oks) == Fulfilled(safeScreenshots(vn), oks)

\* descPromise of the import dialog: translateDescription when a key is set,
\* cleanDescription when it is not or when the translation throws
descPromise(vn, apiKey, ok) ==
    IF vn.description = "" THEN ""
    ELSE IF apiKey # "" /\ ok THEN Translated(vn.description)
    ELSE cleanDescription(vn.description)

\* translateTags run to its end in one piece: tt = [lookup, throws, reply, stored]
\* gives the outcome of its cache lookup, the translator's answer (it throws,
\* or resolves with reply) and how many pairs setTagTranslations wrote before
\* an upsert was rejected. Gives [raised, result, table].
RECURSIVE UpsertFirst(_, _, _, _)
UpsertFirst(table, uncached, translated, n) ==
    IF n = 0 THEN table
    ELSE Upsert(UpsertFirst(table, uncached, translated, n - 1), uncached[n], translated[n])

translateTagsRun(table, tags, apiKey, tt) ==
    LET cached == getTagTranslations(table, tags)
        uncached == Uncached(tags, cached)
        goes == Len(uncached) > 0 /\ Trim(apiKey) # ""
        fits == goes /\ ~tt.throws /\ Len(tt.reply) = Len(uncached)
        n == IF tt.stored < Len(uncached) THEN tt.stored ELSE Len(uncached)
        merged == CachedSet(cached, uncached, tt.reply, 1)
    IN IF Len(tags) = 0 THEN [raised |-> FALSE, result |-> tags, table |-> table]
       ELSE IF ~tt.lookup THEN [raised |-> TRUE, result |-> <<>>, table |-> table]
       ELSE IF ~fits THEN [raised |-> FALSE, result |-> ResultOf(tags, cached), table |-> table]
       ELSE IF n < Len(uncached)
            THEN [raised |-> FALSE, result |-> ResultOf(tags, cached),
                  table |-> UpsertFirst(table, uncached, tt.reply, n)]
            ELSE [raised |-> FALSE, result |-> ResultOf(tags, merged),
                  table |-> UpsertFirst(table, uncached, tt.reply, n)]

\* tagsPromise: extractTags, then translateTags when a key is set and there
\* are tags; a raising translateTags gives the extracted tags
tagsPromise(vn, apiKey, table, tt) ==
    LET vndbTags == extractTags(vn.tags, DefaultMaxSpoiler, DefaultMaxCount)
        run == translateTagsRun(table, vndbTags, apiKey, tt)
    IN IF vn.id = "" THEN [result |-> <<>>, table |-> table]
       ELSE IF apiKey # "" /\ Len(vndbTags) > 0
            THEN [result |-> IF run.raised THEN vndbTags ELSE run.result, table |-> run.table]
            ELSE [result |-> vndbTags, table |-> table]


(***************************************************************************)
(* Part 4: ScanDialog, the import dialog                                   *)
(***************************************************************************)
Paths == 1..MaxItems
NoIdx == 0
ScanApiKeys == {"", "k"}

\* the folder title scan_games guesses for an install path
Title(p) == IF p % 2 = 1 THEN "t1" ELSE "t2"
Engine(p) == IF p % 2 = 1 THEN "" ELSE "krkr"
Detected(p) == [title |-> Title(p), exe_path |-> p, install_path |-> p, engine |-> Engine(p)]

NoError == [msg |-> "", detail |-> ""]
NoMatchError == [msg |-> "VNDB no match", detail |-> ""]
MatchFailed(err) == [msg |-> "match failed", detail |-> err]

NewItem(d) ==
    [detected |-> d, vndb |-> NullVn, candidates |-> <<>>, coverPath |-> "",
     screenshotPaths |-> <<>>, translatedDesc |-> "", translatedTags |-> <<>>,
     status |-> "pending", error |-> NoError]

IdleSm ==
    [pc |-> "idle", i |-> 0, total |-> 0, apiKey |-> "", res |-> <<>>, vn |-> NullVn,
     detail |-> "none", log |-> <<>>, titles |-> <<>>, query |-> ""]

\* the dialog is rendered until setShowScan(false): that of onClose or that
\* of App.handleScanImport. What its calls set afterwards is ignored.
Mounted == imp.pc # "closed"

InitScan ==
    /\ items = <<>>
    /\ phase = "select"
    /\ activeIdx = NoIdx
    /\ sm = IdleSm
    /\ scanning = [active |-> FALSE, seen |-> {}]

\* handleAddFolders up to its await of scan_games; existingPaths is taken
\* from the items of the render the click happened in
handleAddFolders ==
    /\ Mounted
    /\ phase = "select"
    /\ ~scanning.active
    /\ scanning' = [active |-> TRUE, seen |-> {items[k].detected.install_path : k \in DOMAIN items}]
    /\ UNCHANGED <<items, phase, activeIdx, sm, tag_translations>>
    /\ UNCHANGED <<playVars, calls, cur, matchVars, reviewVars, batchVars>>

\* scan_games resolves with the detected game of path p: it is appended as a
\* pending item unless its install path was already listed. Folders are
\* numbered in the order they are detected in: a new one has the number after
\* those listed.
scanReturn(p) ==
    /\ scanning.active
    /\ p \in scanning.seen \/ (Len(items) < MaxItems /\ p = Cardinality(scanning.seen) + 1
                                    /\ \A q \in scanning.seen : q < p)
    /\ scanning' = [active |-> FALSE, seen |-> {}]
    /\ items' = IF p \in scanning.seen \/ ~Mounted THEN items
                ELSE Append(items, NewItem(Detected(p)))
    /\ UNCHANGED <<phase, activeIdx, sm, tag_translations>>
    /\ UNCHANGED <<playVars, calls, cur, matchVars, reviewVars, batchVars>>

\* removeItem(index): offered for pending items in the select phase
removeItem(index) ==
    /\ Mounted
    /\ phase = "select"
    /\ index \in DOMAIN items
    /\ items[index].status = "pending"
    /\ items' = [k \in 1..(Len(items) - 1) |-> IF k < index THEN items[k] ELSE items[k + 1]]
    /\ activeIdx' = IF activeIdx = index THEN NoIdx
                    ELSE IF activeIdx # NoIdx /\ activeIdx > index THEN activeIdx - 1
                    ELSE activeIdx
    /\ UNCHANGED <<phase, sm, scanning, tag_translations>>
    /\ UNCHANGED <<playVars, calls, cur, matchVars, reviewVars, batchVars>>

\* setItems(prev => prev.map(... idx === i ? {...it, status: "matching"} : it))
SetMatchingFrom(its, i) ==
    [k \in DOMAIN its |-> IF k >= i THEN [its[k] EXCEPT !.status = "matching"] ELSE its[k]]
SetMatching(its, i) ==
    [k \in DOMAIN its |-> IF k = i THEN [its[k] EXCEPT !.status = "matching"] ELSE its[k]]

\* the setItems of the catch block
CatchItemAll(its, i, err) ==
    [k \in DOMAIN its |-> [its[k] EXCEPT !.status = "failed", !.error = MatchFailed(err)]]
CatchItem(its, i, err) ==
    [k \in DOMAIN its |->
        IF k = i THEN [its[k] EXCEPT !.status = "failed", !.error = MatchFailed(err)]
        ELSE its[k]]

\* the setItems that stores the result of one item
StoreMatchAlways(its, i, vn, candidates, coverPath, screenshotPaths, translatedDesc, translatedTags) ==
    [k \in DOMAIN its |->
        IF k = i
        THEN [its[k] EXCEPT !.vndb = vn, !.candidates = candidates, !.coverPath = coverPath,
                            !.screenshotPaths = screenshotPaths,
                            !.translatedDesc = translatedDesc,
                            !.translatedTags = translatedTags,
                            !.status = "matched", !.error = NoError]
        ELSE its[k]]
StoreMatchStrict(its, i, vn, candidates, coverPath, screenshotPaths, translatedDesc, translatedTags) ==
    [k \in DOMAIN its |->
        IF k = i
        THEN [its[k] EXCEPT !.vndb = vn, !.candidates = candidates, !.coverPath = coverPath,
                            !.screenshotPaths = screenshotPaths,
                            !.translatedDesc = translatedDesc,
                            !.translatedTags = translatedTags,
                            !.status = IF vn.id # "" /\ coverPath # "" THEN "matched" ELSE "failed",
                            !.error = IF vn.id # "" /\ coverPath # "" THEN NoError ELSE NoMatchError]
        ELSE its[k]]
StoreMatch(its, i, vn, candidates, coverPath, screenshotPaths, translatedDesc, translatedTags) ==
    [k \in DOMAIN its |->
        IF k = i
        THEN [its[k] EXCEPT !.vndb = vn, !.candidates = candidates, !.coverPath = coverPath,
                            !.screenshotPaths = screenshotPaths,
                            !.translatedDesc = translatedDesc,
                            !.translatedTags = translatedTags,
                            !.status = IF vn.id # "" THEN "matched" ELSE "failed",
                            !.error = IF vn.id # "" THEN NoError ELSE NoMatchError]
        ELSE its[k]]

\* startMatching up to its await of db.getSetting
startMatching ==
    /\ Mounted
    /\ phase = "select"
    /\ sm.pc = "idle"
    /\ Len(items) > 0
    /\ phase' = "matching"
    /\ sm' = [sm EXCEPT !.pc = "getSetting", !.total = Len(items),
                        !.titles = [k \in DOMAIN items |-> items[k].detected.title]]
    /\ UNCHANGED <<items, activeIdx, scanning, tag_translations>>
    /\ UNCHANGED <<playVars, calls, cur, matchVars, reviewVars, batchVars>>

\* db.getSetting resolves and the loop starts on the first item, up to its
\* await of searchVn; or it rejects and startMatching ends there
getSettingReturn(key, ok) ==
    /\ sm.pc = "getSetting"
    /\ IF ok
       THEN /\ sm' = [sm EXCEPT !.pc = "search", !.apiKey = key, !.i = 1,
                                 !.query = sm.titles[1]]
            /\ items' = SetMatching(items, 1)
       ELSE /\ sm' = [sm EXCEPT !.pc = "rejected"]
            /\ UNCHANGED items
    /\ UNCHANGED <<phase, activeIdx, scanning, tag_translations>>
    /\ UNCHANGED <<playVars, calls, cur, matchVars, reviewVars, batchVars>>

\* what follows the try/catch of item i: the 500 ms delay before the next
\* item, or the end of the loop: setPhase("review"), setActiveIdx(0)
AfterItem(entry) ==
    IF sm.i < sm.total
    THEN /\ sm' = [sm EXCEPT !.pc = "delay", !.log = Append(@, entry)]
         /\ UNCHANGED <<phase, activeIdx>>
    ELSE /\ sm' = [sm EXCEPT !.pc = "done", !.log = Append(@, entry)]
         /\ phase' = IF Mounted THEN "review" ELSE phase
         /\ activeIdx' = IF Mounted THEN 1 ELSE activeIdx

NoOutcome ==
    [exc |-> "", nres |-> 0, detail |-> "none", cover |-> "none", shots |-> <<>>,
     desc |-> "none", tags |-> "none"]

\* searchVn resolves with res: getVnById is called for the first candidate,
\* or, with no candidate, the sub-tasks are started on vn = null
searchReturn(res) ==
    /\ sm.pc = "search"
    /\ sm' = [sm EXCEPT !.res = res, !.vn = NullVn, !.detail = "none",
                        !.pc = IF Len(res) > 0 THEN "detail" ELSE "enrich"]
    /\ UNCHANGED <<items, phase, activeIdx, scanning, tag_translations>>
    /\ UNCHANGED <<playVars, calls, cur, matchVars, reviewVars, batchVars>>

\* searchVn rejects: the catch block
searchThrows(err) ==
    /\ sm.pc = "search"
    /\ items' = CatchItem(items, sm.i, err)
    /\ AfterItem([NoOutcome EXCEPT !.exc = err])
    /\ UNCHANGED <<scanning, tag_translations>>
    /\ UNCHANGED <<playVars, calls, cur, matchVars, reviewVars, batchVars>>

\* getVnById resolves with the full record (devs: what fetchDevelopers
\* found) or with null: `if (!vn) vn = candidates[0]`
detailReturn(found, devs) ==
    /\ sm.pc = "detail"
    /\ found \/ devs = <<>>
    /\ sm' = [sm EXCEPT !.pc = "enrich",
                        !.vn = IF found THEN DetailOf(sm.res[1], devs) ELSE sm.res[1],
                        !.detail = IF found THEN "full" ELSE "null"]
    /\ UNCHANGED <<items, phase, activeIdx, scanning, tag_translations>>
    /\ UNCHANGED <<playVars, calls, cur, matchVars, reviewVars, batchVars>>

\* getVnById rejects (`if (!resp.ok) throw`): the catch block
detailThrows(err) ==
    /\ sm.pc = "detail"
    /\ items' = CatchItem(items, sm.i, err)
    /\ AfterItem([NoOutcome EXCEPT !.exc = err, !.nres = Len(sm.res), !.detail = "throw"])
    /\ UNCHANGED <<scanning, tag_translations>>
    /\ UNCHANGED <<playVars, calls, cur, matchVars, reviewVars, batchVars>>

\* the translator of the import dialog answers "x" for a tag
ScanReplies(n) == {[j \in 1..n |-> "x"], [j \in 1..(n - 1) |-> "x"]}
NoTt == [lookup |-> TRUE, throws |-> FALSE, reply |-> <<>>, stored |-> 0]
TtOutcomes(n) ==
    {[NoTt EXCEPT !.lookup = FALSE], [NoTt EXCEPT !.throws = TRUE]}
    \cup {[NoTt EXCEPT !.reply = r, !.stored = st] : r \in ScanReplies(n), st \in 0..n}

\* Promise.all of the four sub-tasks resolves and the result is stored
enrichReturn(coverOk, oks, descOk, tt) ==
    /\ sm.pc = "enrich"
    /\ LET vn == sm.vn
           safe == safeScreenshots(vn)
           vndbTags == extractTags(vn.tags, DefaultMaxSpoiler, DefaultMaxCount)
           translates == vn.id # "" /\ sm.apiKey # "" /\ Len(vndbTags) > 0
           tagged == tagsPromise(vn, sm.apiKey, tag_translations, tt)
       IN /\ coverOk \/ vn.image
          /\ DOMAIN oks = DOMAIN safe
          /\ descOk \/ (vn.description # "" /\ sm.apiKey # "")
          /\ IF translates THEN tt \in TtOutcomes(Len(vndbTags)) ELSE tt = NoTt
          /\ items' = StoreMatch(items, sm.i, vn, sm.res,
                                 coverPromise(vn, coverOk, ""),
                                 screenshotsPromise(vn, oks),
                                 descPromise(vn, sm.apiKey, descOk),
                                 tagged.result)
          /\ tag_translations' = tagged.table
          /\ AfterItem([exc |-> "", nres |-> Len(sm.res), detail |-> sm.detail,
                        cover |-> IF ~vn.image THEN "none" ELSE IF coverOk THEN "ok" ELSE "fail",
                        shots |-> [j \in DOMAIN safe |-> [id |-> safe[j].id, ok |-> oks[j]]],
                        desc |-> IF vn.description = "" \/ sm.apiKey = "" THEN "none"
                                 ELSE IF descOk THEN "ok" ELSE "fail",
                        tags |-> IF ~translates THEN "none"
                                 ELSE IF ~tt.lookup THEN "raise" ELSE "ok"])
    /\ UNCHANGED scanning
    /\ UNCHANGED <<playVars, calls, cur, matchVars, reviewVars, batchVars>>

\* the delay is over: the next item is set to matching and searched
delayElapsed ==
    /\ sm.pc = "delay"
    /\ sm' = [sm EXCEPT !.pc = "search", !.i = sm.i + 1, !.query = sm.titles[sm.i + 1]]
    /\ items' = SetMatching(items, sm.i + 1)
    /\ UNCHANGED <<phase, activeIdx, scanning, tag_translations>>
    /\ UNCHANGED <<playVars, calls, cur, matchVars, reviewVars, batchVars>>

\* the outcomes the downloads of vn's screenshots and the translation of its
\* tags may have
OkLists(vn) == [DOMAIN safeScreenshots(vn) -> BOOLEAN]
AllTts(vn) == TtOutcomes(Len(extractTags(vn.tags, DefaultMaxSpoiler, DefaultMaxCount))) \cup {NoTt}

Next ==
    \/ handleAddFolders
    \/ \E p \in Paths : scanReturn(p)
    \/ \E index \in 1..MaxItems : removeItem(index)
    \/ startMatching
    \/ \E key \in ScanApiKeys, ok \in BOOLEAN : getSettingReturn(key, ok)
    \/ \E res \in SearchResults : searchReturn(res)
    \/ searchThrows("search error")
    \/ \E found \in BOOLEAN : detailReturn(found, IF found THEN Developers ELSE <<>>)
    \/ detailThrows("detail error")
    \/ \E coverOk \in BOOLEAN, oks \in OkLists(sm.vn), descOk \in BOOLEAN, tt \in AllTts(sm.vn) :
           enrichReturn(coverOk, oks, descOk, tt)
    \/ delayElapsed

\* onClose (the overlay, the X and the cancel button, in any phase):
\* setShowScan(false) unmounts the dialog and its state is dropped. Nothing
\* tells the startMatching call, which goes on with the items and the count
\* it was started on.
onClose ==
    /\ Mounted
    /\ imp.pc = "idle"
    /\ imp' = [imp EXCEPT !.pc = "closed"]
    /\ items' = <<>>
    /\ phase' = "select"
    /\ activeIdx' = NoIdx
    /\ UNCHANGED <<sm, scanning, tag_translations, panel, picks>>
    /\ UNCHANGED <<playVars, calls, cur, matchVars, batchVars>>

NextClose ==
    \/ handleAddFolders
    \/ \E p \in Paths : scanReturn(p)
    \/ \E index \in 1..MaxItems : removeItem(index)
    \/ startMatching
    \/ \E key \in ScanApiKeys, ok \in BOOLEAN : getSettingReturn(key, ok)
    \/ \E res \in SearchResults : searchReturn(res)
    \/ searchThrows("search error")
    \/ \E found \in BOOLEAN : detailReturn(found, IF found THEN Developers ELSE <<>>)
    \/ detailThrows("detail error")
    \/ \E coverOk \in BOOLEAN, oks \in OkLists(sm.vn), descOk \in BOOLEAN, tt \in AllTts(sm.vn) :
           enrichReturn(coverOk, oks, descOk, tt)
    \/ delayElapsed
    \/ onClose

(***************************************************************************)
(* Part 5: VndbMatchDialog, matching one library entry against the catalog *)
(***************************************************************************)
\* the fields of a Game that handleApply reads; vndb_id "" in NullGame stands
\* for vndbMatchGame = null
NullGame ==
    [id |-> "", cover_path |-> "", screenshots |-> <<>>, tags |-> <<>>, notes |-> "",
     developer |-> "", vndb_id |-> ""]
G0 == [NullGame EXCEPT !.id = "g0"]
G1 ==
    [id |-> "g1", cover_path |-> "c0", screenshots |-> <<"old">>, tags |-> <<"a", "t">>,
     notes |-> "n", developer |-> "d0", vndb_id |-> ""]
DialogGames == {G0, G1}

\* what searchVn may resolve with in the match dialog
ApplyResults == {<<>>, <<V3>>}

NoUpdate ==
    [vndb_id |-> "", developer |-> "", cover_path |-> "", screenshots |-> <<>>,
     tags |-> <<>>, notes |-> ""]

ClosedMd ==
    [pc |-> "closed", results |-> <<>>, selectedVn |-> NullVn, loadingDetail |-> {},
     error |-> "", applying |-> FALSE, vn |-> NullVn, apiKey |-> "",
     screenshotPaths |-> <<>>, update |-> NoUpdate, out |-> NoOutcome]

InitMatch ==
    /\ gameRow = G0
    /\ vndbMatchGame = NullGame
    /\ md = ClosedMd
    /\ applyCount = 0

\* developers.map((d) => d.name).join(", ")
JoinNames(devs) == IF Len(devs) = 0 THEN "" ELSE devs[1]

\* [...new Set([...a, ...b])]: the first occurrence of every element, in order
RECURSIVE Dedup(_)
Dedup(q) ==
    IF q = <<>> THEN <<>>
    ELSE LET front == Dedup(SubSeq(q, 1, Len(q) - 1))
             last == q[Len(q)]
         IN IF \E k \in DOMAIN front : front[k] = last THEN front ELSE Append(front, last)

\* descPromise of handleApply: the entry's notes when it has any
notesPromiseAlways(game, vn, apiKey, ok) == descPromise(vn, apiKey, ok)
notesPromise(game, vn, apiKey, ok) ==
    IF game.notes # "" THEN game.notes ELSE descPromise(vn, apiKey, ok)

\* onVndbMatch: setVndbMatchGame(game); the dialog mounts and searches for the title
onVndbMatch ==
    /\ vndbMatchGame = NullGame
    /\ applyCount < MaxApplies
    /\ vndbMatchGame' = gameRow
    /\ md' = [ClosedMd EXCEPT !.pc = "search"]
    /\ UNCHANGED <<gameRow, tag_translations>>
    /\ UNCHANGED <<playVars, calls, cur, scanVars, applyCount, reviewVars, batchVars>>

\* doSearch up to its await of searchVn
doSearch ==
    /\ md.pc = "idle"
    /\ md' = [md EXCEPT !.pc = "search", !.error = "", !.selectedVn = NullVn]
    /\ UNCHANGED <<gameRow, vndbMatchGame, tag_translations>>
    /\ UNCHANGED <<playVars, calls, cur, scanVars, applyCount, reviewVars, batchVars>>

\* searchVn resolves with res, or rejects
doSearchReturn(res, ok) ==
    /\ md.pc = "search"
    /\ ok \/ res = <<>>
    /\ md' = [md EXCEPT !.pc = "idle", !.results = res,
                        !.error = IF ~ok THEN "search failed"
                                  ELSE IF Len(res) = 0 THEN "no result" ELSE md.error]
    /\ UNCHANGED <<gameRow, vndbMatchGame, tag_translations>>
    /\ UNCHANGED <<playVars, calls, cur, scanVars, applyCount, reviewVars, batchVars>>

\* selectVn(vn) up to its await of getVnById: the summary record is shown
selectVn(k) ==
    /\ md.pc = "idle"
    /\ k \in DOMAIN md.results
    /\ md.results[k].id \notin md.loadingDetail
    /\ md' = [md EXCEPT !.selectedVn = md.results[k],
                        !.loadingDetail = @ \cup {md.results[k].id}]
    /\ UNCHANGED <<gameRow, vndbMatchGame, tag_translations>>
    /\ UNCHANGED <<playVars, calls, cur, scanVars, applyCount, reviewVars, batchVars>>

\* getVnById of selectVn(vn) resolves with the full record or null, or
\* rejects: only a full record replaces the selection. The step commutes
\* with those of a handleApply in flight (which works on the selection of
\* its click), so it is taken while none is.
selectVnReturn(vn, found, devs) ==
    /\ md.pc = "idle"
    /\ vn.id \in md.loadingDetail
    /\ found \/ devs = <<>>
    /\ md' = [md EXCEPT !.loadingDetail = @ \ {vn.id},
                        !.selectedVn = IF found THEN DetailOf(vn, devs) ELSE @]
    /\ UNCHANGED <<gameRow, vndbMatchGame, tag_translations>>
    /\ UNCHANGED <<playVars, calls, cur, scanVars, applyCount, reviewVars, batchVars>>

\* handleApply up to its await of getSetting; selectedVn is the one of the
\* render the click happened in
handleApply ==
    /\ md.pc = "idle"
    /\ md.selectedVn # NullVn
    /\ ~md.applying
    /\ applyCount < MaxApplies
    /\ applyCount' = applyCount + 1
    /\ md' = [md EXCEPT !.pc = "setting", !.applying = TRUE, !.vn = md.selectedVn]
    /\ UNCHANGED <<gameRow, vndbMatchGame, tag_translations>>
    /\ UNCHANGED <<playVars, calls, cur, scanVars, reviewVars, batchVars>>

\* getSetting("deepseek_api_key") resolves, or rejects: catch and finally
applySettingReturn(key, ok) ==
    /\ md.pc = "setting"
    /\ ok \/ key = ""
    /\ md' = IF ok THEN [md EXCEPT !.pc = "enrich", !.apiKey = key]
             ELSE [md EXCEPT !.pc = "idle", !.error = "apply failed", !.applying = FALSE]
    /\ UNCHANGED <<gameRow, vndbMatchGame, tag_translations>>
    /\ UNCHANGED <<playVars, calls, cur, scanVars, applyCount, reviewVars, batchVars>>

\* Promise.all of the four sub-tasks resolves: the update is built and handed
\* to onApply (App.handleVndbApply, which awaits library.updateGame)
applyEnrichReturn(coverOk, oks, descOk, tt) ==
    /\ md.pc = "enrich"
    /\ LET vn == md.vn
           game == vndbMatchGame
           safe == safeScreenshots(vn)
           vndbTags == extractTags(vn.tags, DefaultMaxSpoiler, DefaultMaxCount)
           translates == md.apiKey # "" /\ Len(vndbTags) > 0
           describes == game.notes = "" /\ vn.description # "" /\ md.apiKey # ""
           tagged == tagsPromise(vn, md.apiKey, tag_translations, tt)
           screenshotPaths == screenshotsPromise(vn, oks)
       IN /\ coverOk \/ vn.image
          /\ DOMAIN oks = DOMAIN safe
          /\ descOk \/ describes
          /\ IF translates THEN tt \in TtOutcomes(Len(vndbTags)) ELSE tt = NoTt
          /\ tag_translations' = tagged.table
          /\ md' = [md EXCEPT
                !.pc = "saving",
                !.applying = FALSE,
                !.screenshotPaths = screenshotPaths,
                !.update =
                    [vndb_id |-> vn.id,
                     developer |-> IF Len(vn.developers) > 0 THEN JoinNames(vn.developers)
                                   ELSE game.developer,
                     cover_path |-> coverPromise(vn, coverOk, game.cover_path),
                     screenshots |-> IF Len(screenshotPaths) > 0 THEN screenshotPaths
                                     ELSE game.screenshots,
                     tags |-> Dedup(game.tags \o tagged.result),
                     notes |-> notesPromise(game, vn, md.apiKey, descOk)],
                !.out =
                    [exc |-> "", nres |-> Len(md.results), detail |-> "none",
                     cover |-> IF ~vn.image THEN "none" ELSE IF coverOk THEN "ok" ELSE "fail",
                     shots |-> [j \in DOMAIN safe |-> [id |-> safe[j].id, ok |-> oks[j]]],
                     desc |-> IF ~describes THEN "none" ELSE IF descOk THEN "ok" ELSE "fail",
                     tags |-> IF ~translates THEN "none"
                              ELSE IF ~tt.lookup THEN "raise" ELSE "ok"]]
    /\ UNCHANGED <<gameRow, vndbMatchGame>>
    /\ UNCHANGED <<playVars, calls, cur, scanVars, applyCount, reviewVars, batchVars>>

\* library.updateGame of handleVndbApply resolves: the row takes the fields of
\* the update, and setVndbMatchGame(null) closes the dialog; or it rejects
\* and the dialog stays
handleVndbApplyReturn(ok) ==
    /\ md.pc = "saving"
    /\ IF ok
       THEN /\ gameRow' = [gameRow EXCEPT !.vndb_id = md.update.vndb_id,
                                          !.developer = md.update.developer,
                                          !.cover_path = md.update.cover_path,
                                          !.screenshots = md.update.screenshots,
                                          !.tags = md.update.tags,
                                          !.notes = md.update.notes]
            /\ vndbMatchGame' = NullGame
            /\ md' = ClosedMd
       ELSE /\ md' = [md EXCEPT !.pc = "idle", !.screenshotPaths = <<>>,
                                      !.update = NoUpdate, !.out = NoOutcome]
            /\ UNCHANGED <<gameRow, vndbMatchGame>>
    /\ UNCHANGED tag_translations
    /\ UNCHANGED <<playVars, calls, cur, scanVars, applyCount, reviewVars, batchVars>>

\* onClose, with no handleApply in flight
onCloseMatch ==
    /\ md.pc = "idle"
    /\ vndbMatchGame' = NullGame
    /\ md' = ClosedMd
    /\ UNCHANGED <<gameRow, tag_translations>>
    /\ UNCHANGED <<playVars, calls, cur, scanVars, applyCount, reviewVars, batchVars>>

NextApply ==
    \/ onVndbMatch
    \/ doSearch
    \/ \E res \in ApplyResults, ok \in BOOLEAN : doSearchReturn(res, ok)
    \/ \E k \in DOMAIN md.results : selectVn(k)
    \/ \E vn \in {md.results[k] : k \in DOMAIN md.results}, found \in BOOLEAN :
           selectVnReturn(vn, found, IF found THEN Developers ELSE <<>>)
    \/ handleApply
    \/ \E key \in ScanApiKeys, ok \in BOOLEAN : applySettingReturn(key, ok)
    \/ \E coverOk \in BOOLEAN, oks \in OkLists(md.vn), descOk \in BOOLEAN, tt \in AllTts(md.vn) :
           applyEnrichReturn(coverOk, oks, descOk, tt)
    \/ \E ok \in BOOLEAN : handleVndbApplyReturn(ok)
    \/ onCloseMatch

(***************************************************************************)
(* Part 6: ScanDialog, the review phase and the import                     *)
(*                                                                         *)
(* The review panel is rendered in the review phase only. pickCandidate    *)
(* has no try/catch: a rejected getVnById or getSetting ends the call and  *)
(* leaves the item as it was. handleImport hands the records to            *)
(* App.handleScanImport, which adds them one by one and closes the dialog. *)
(***************************************************************************)
PanelQueries == {"", " ", "t1", "q"}
\* what searchVn may resolve with for a query typed in the panel
PanelResults == {<<>>, <<V2, V1>>}
ManuallySkipped == [msg |-> "manually skipped", detail |-> ""]

\* panelQuery is not kept: it is the title openPanel put in the search box or
\* what the user typed since, and is drawn when a search is started
IdlePanel == [searching |-> FALSE, results |-> <<>>, inflight |-> 0]
\* stale is history, not program state: the user has picked or cleared for
\* the call's item since the call was made
IdlePick ==
    [pc |-> "idle", idx |-> NoIdx, vn |-> NullVn, full |-> NullVn, apiKey |-> "",
     stale |-> FALSE]
IdleImp == [pc |-> "idle", toImport |-> <<>>, added |-> 0]

InitReview ==
    /\ panel = IdlePanel
    /\ picks = [s \in 1..MaxPicks |-> IdlePick]
    /\ imp = IdleImp

\* the catalog fields handleImport reads that the enrichment does not:
\* title / titles, alttitle, released ("TBA" or null: not known), rating
\* VndbTitle
VndbTitle(lang, title, main) == [lang |-> lang, title |-> title, main |-> main]
\* the title fields of the records of the catalog: title, alttitle, titles
TitleFields(vn) ==
    CASE vn.id = "v1" ->
            [title |-> "title v1", alttitle |-> "",
             titles |-> <<VndbTitle("ja", "ja v1", TRUE)>>]
      [] vn.id = "v2" -> [title |-> "title v2", alttitle |-> "", titles |-> <<>>]
      [] vn.id = "v3" ->
            [title |-> "title v3", alttitle |-> "alt v3",
             titles |-> <<VndbTitle("en", "en v3", TRUE), VndbTitle("zh-Hant", "zh v3", FALSE)>>]
      [] OTHER -> [title |-> "", alttitle |-> "", titles |-> <<>>]
VnReleased(vn) == CASE vn.id = "v1" -> "2020-01-01" [] vn.id = "v2" -> "TBA" [] OTHER -> ""
VnRating(vn) == CASE vn.id = "v1" -> 80 [] vn.id = "v3" -> 70 [] OTHER -> 0

LANG_PRIORITY == <<"zh-Hans", "zh-Hant", "zh">>

\* titles.find(pred): the first entry that satisfies pred, NoTitle if none;
\* hits is the set of the positions whose entry satisfies pred
NoTitle == [lang |-> "", title |-> "", main |-> FALSE]
Find(titles, hits) ==
    IF hits = {} THEN NoTitle
    ELSE titles[CHOOSE i \in hits : \A j \in hits : i <= j]

\* null is the string "null": no title of the pools is that string
NullTitle == "null"
RECURSIVE pickChineseFrom(_, _)
pickChineseFrom(langs, titles) ==
    IF langs = <<>> THEN NullTitle
    ELSE LET found == Find(titles, {i \in DOMAIN titles : titles[i].lang = Head(langs)})
         IN IF found # NoTitle THEN found.title
            ELSE pickChineseFrom(Tail(langs), titles)
pickChineseTitleGeneric(titles) == pickChineseFrom(<<"zh", "zh-Hant", "zh-Hans">>, titles)
pickChineseTitle(titles) == pickChineseFrom(LANG_PRIORITY, titles)

\* a || b on strings: the empty string and null are falsy
pickDisplayTitle(vn) ==
    LET zh == pickChineseTitle(vn.titles)
    IN IF zh # NullTitle /\ zh # "" THEN zh ELSE vn.title
pickOriginalTitle(vn) ==
    LET ja == Find(vn.titles, {i \in DOMAIN vn.titles : vn.titles[i].lang = "ja"})
        main == Find(vn.titles, {i \in DOMAIN vn.titles : vn.titles[i].main})
    IN IF ja # NoTitle THEN ja.title
       ELSE IF vn.alttitle # "" THEN vn.alttitle
       ELSE IF main # NoTitle THEN main.title
       ELSE ""
formatVndbDate(date) == IF date = "" \/ date = "TBA" THEN "" ELSE date

\* openPanel(index): a click on a row of the list in the review phase
openPanel(index) ==
    /\ Mounted
    /\ phase = "review"
    /\ index \in DOMAIN items
    /\ activeIdx' = index
    /\ panel' = [panel EXCEPT !.results = items[index].candidates]
    /\ UNCHANGED <<items, phase, sm, scanning, tag_translations, picks, imp>>
    /\ UNCHANGED <<playVars, calls, cur, matchVars, batchVars>>

\* panelSearch up to its await of searchVn (Enter in the search box starts
\* it whether or not a search is running)
panelSearch(query) ==
    /\ Mounted
    /\ phase = "review"
    /\ activeIdx # NoIdx
    /\ Trim(query) # ""
    /\ panel.inflight < MaxSearches
    /\ panel' = [panel EXCEPT !.searching = TRUE, !.inflight = @ + 1]
    /\ UNCHANGED <<items, phase, activeIdx, sm, scanning, tag_translations, picks, imp>>
    /\ UNCHANGED <<playVars, calls, cur, matchVars, batchVars>>

\* searchVn resolves (res) or rejects (the catch block: no results)
panelSearchReturn(res, ok) ==
    /\ Mounted
    /\ panel.inflight > 0
    /\ ok \/ res = <<>>
    /\ panel' = [panel EXCEPT !.results = res, !.searching = FALSE, !.inflight = @ - 1]
    /\ UNCHANGED <<items, phase, activeIdx, sm, scanning, tag_translations, picks, imp>>
    /\ UNCHANGED <<playVars, calls, cur, matchVars, batchVars>>

\* the setItems of pickCandidate; activeIdx is the one of the render the
\* candidate was clicked in
StorePickActive(its, idx, vn, coverPath, screenshotPaths, translatedDesc, translatedTags) ==
    [k \in DOMAIN its |->
        IF k = activeIdx
        THEN [its[k] EXCEPT !.vndb = vn, !.coverPath = coverPath,
                            !.screenshotPaths = screenshotPaths,
                            !.translatedDesc = translatedDesc,
                            !.translatedTags = translatedTags,
                            !.status = "matched", !.error = NoError]
        ELSE its[k]]
StorePickAll(its, idx, vn, coverPath, screenshotPaths, translatedDesc, translatedTags) ==
    [k \in DOMAIN its |->
        [its[k] EXCEPT !.vndb = vn, !.coverPath = coverPath,
                       !.screenshotPaths = screenshotPaths,
                       !.translatedDesc = translatedDesc,
                       !.translatedTags = translatedTags,
                       !.status = "matched", !.error = NoError]]
StorePick(its, idx, vn, coverPath, screenshotPaths, translatedDesc, translatedTags) ==
    [k \in DOMAIN its |->
        IF k = idx
        THEN [its[k] EXCEPT !.vndb = vn, !.coverPath = coverPath,
                            !.screenshotPaths = screenshotPaths,
                            !.translatedDesc = translatedDesc,
                            !.translatedTags = translatedTags,
                            !.status = "matched", !.error = NoError]
        ELSE its[k]]

\* pickCandidate calls are numbered in the order they are made in; a slot
\* that has not been taken is idle, a call that is over is ended
FreePick == CHOOSE s \in 1..MaxPicks :
                picks[s].pc = "idle" /\ \A r \in 1..(s - 1) : picks[r].pc # "idle"
EndedPick == [IdlePick EXCEPT !.pc = "ended"]

\* the calls in flight for item idx, marked stale
Outdated(idx) ==
    [s \in 1..MaxPicks |->
        IF picks[s].pc \notin {"idle", "ended"} /\ picks[s].idx = idx
        THEN [picks[s] EXCEPT !.stale = TRUE]
        ELSE picks[s]]

\* pickCandidate(vn) up to its await of getVnById: a click on the k-th
\* candidate of the panel
pickCandidate(k) ==
    /\ Mounted
    /\ phase = "review"
    /\ activeIdx # NoIdx
    /\ k \in DOMAIN panel.results
    /\ \E s \in 1..MaxPicks : picks[s].pc = "idle"
    /\ picks' = [Outdated(activeIdx) EXCEPT ![FreePick] =
                    [IdlePick EXCEPT !.pc = "detail", !.idx = activeIdx, !.vn = panel.results[k]]]
    /\ UNCHANGED <<items, phase, activeIdx, sm, scanning, tag_translations, panel, imp>>
    /\ UNCHANGED <<playVars, calls, cur, matchVars, batchVars>>

\* getVnById resolves with the full record or with null (`fullVn = vn`)
pickDetailReturn(s, found, devs) ==
    /\ Mounted
    /\ picks[s].pc = "detail"
    /\ found \/ devs = <<>>
    /\ picks' = [picks EXCEPT ![s].pc = "getSetting",
                              ![s].full = IF found THEN DetailOf(picks[s].vn, devs)
                                          ELSE picks[s].vn]
    /\ UNCHANGED <<items, phase, activeIdx, sm, scanning, tag_translations, panel, imp>>
    /\ UNCHANGED <<playVars, calls, cur, matchVars, batchVars>>

\* getVnById rejects: pickCandidate ends there
pickDetailThrows(s) ==
    /\ Mounted
    /\ picks[s].pc = "detail"
    /\ picks' = [picks EXCEPT ![s] = EndedPick]
    /\ UNCHANGED <<items, phase, activeIdx, sm, scanning, tag_translations, panel, imp>>
    /\ UNCHANGED <<playVars, calls, cur, matchVars, batchVars>>

\* db.getSetting resolves and the four sub-tasks are started, or it rejects
\* and pickCandidate ends there
pickSettingReturn(s, key, ok) ==
    /\ Mounted
    /\ picks[s].pc = "getSetting"
    /\ picks' = IF ok THEN [picks EXCEPT ![s].pc = "enrich", ![s].apiKey = key]
                ELSE [picks EXCEPT ![s] = EndedPick]
    /\ UNCHANGED <<items, phase, activeIdx, sm, scanning, tag_translations, panel, imp>>
    /\ UNCHANGED <<playVars, calls, cur, matchVars, batchVars>>

\* Promise.all of the four sub-tasks resolves and the result is stored
pickEnrichReturn(s, coverOk, oks, descOk, tt) ==
    /\ Mounted
    /\ picks[s].pc = "enrich"
    /\ LET vn == picks[s].full
           safe == safeScreenshots(vn)
           vndbTags == extractTags(vn.tags, DefaultMaxSpoiler, DefaultMaxCount)
           translates == picks[s].apiKey # "" /\ Len(vndbTags) > 0
           tagged == tagsPromise(vn, picks[s].apiKey, tag_translations, tt)
       IN /\ coverOk \/ vn.image
          /\ DOMAIN oks = DOMAIN safe
          /\ descOk \/ (vn.description # "" /\ picks[s].apiKey # "")
          /\ IF translates THEN tt \in TtOutcomes(Len(vndbTags)) ELSE tt = NoTt
          /\ items' = StorePick(items, picks[s].idx, vn,
                                coverPromise(vn, coverOk, ""),
                                screenshotsPromise(vn, oks),
                                descPromise(vn, picks[s].apiKey, descOk),
                                tagged.result)
          /\ tag_translations' = tagged.table
    /\ picks' = [picks EXCEPT ![s] = EndedPick]
    /\ UNCHANGED <<phase, activeIdx, sm, scanning, panel, imp>>
    /\ UNCHANGED <<playVars, calls, cur, matchVars, batchVars>>

\* the setItems of clearMatch
ClearItemKeepsRecord(its, idx) ==
    [k \in DOMAIN its |->
        IF k = idx
        THEN [its[k] EXCEPT !.coverPath = "", !.status = "failed", !.error = ManuallySkipped]
        ELSE its[k]]
ClearItemAll(its, idx) ==
    [k \in DOMAIN its |->
        [its[k] EXCEPT !.vndb = NullVn, !.coverPath = "", !.status = "failed",
                       !.error = ManuallySkipped]]
ClearItem(its, idx) ==
    [k \in DOMAIN its |->
        IF k = idx
        THEN [its[k] EXCEPT !.vndb = NullVn, !.coverPath = "", !.status = "failed",
                            !.error = ManuallySkipped]
        ELSE its[k]]

\* clearMatch: the button is shown when the active item has a matched record
clearMatch ==
    /\ Mounted
    /\ phase = "review"
    /\ activeIdx # NoIdx
    /\ items[activeIdx].vndb # NullVn
    /\ items' = ClearItem(items, activeIdx)
    /\ picks' = Outdated(activeIdx)
    /\ UNCHANGED <<phase, activeIdx, sm, scanning, tag_translations, panel, imp>>
    /\ UNCHANGED <<playVars, calls, cur, matchVars, batchVars>>

\* the GameFormData handleImport builds for one item
FormData(item) ==
    LET vn == item.vndb
        has == vn.id # ""
        vndbTags == IF has THEN extractTags(vn.tags, DefaultMaxSpoiler, DefaultMaxCount) ELSE <<>>
    IN [title |-> IF has THEN pickDisplayTitle(TitleFields(vn)) ELSE item.detected.title,
        title_original |-> IF has THEN pickOriginalTitle(TitleFields(vn)) ELSE "",
        vndb_id |-> vn.id,
        developer |-> IF Len(vn.developers) > 0 THEN JoinNames(vn.developers) ELSE "",
        release_date |-> IF has THEN formatVndbDate(VnReleased(vn)) ELSE "",
        exe_path |-> item.detected.exe_path,
        install_path |-> item.detected.install_path,
        save_path |-> "",
        cover_path |-> item.coverPath,
        screenshots |-> item.screenshotPaths,
        tags |-> IF Len(item.translatedTags) > 0 THEN item.translatedTags ELSE vndbTags,
        play_status |-> "unplayed",
        rating |-> 0,
        vndb_rating |-> IF has THEN VnRating(vn) ELSE 0,
        notes |-> IF item.translatedDesc # "" THEN item.translatedDesc
                  ELSE IF vn.description # "" THEN cleanDescription(vn.description) ELSE "",
        engine |-> item.detected.engine]

ToImport(its) == [k \in DOMAIN its |-> FormData(its[k])]

\* handleImport up to its await of onImport, which is App.handleScanImport
\* up to library.addGames' first await of db.addGame
handleImport ==
    /\ Mounted
    /\ phase = "review"
    /\ imp.pc = "idle"
    /\ phase' = "importing"
    /\ imp' = [pc |-> "addGame", toImport |-> ToImport(items), added |-> 0]
    /\ UNCHANGED <<items, activeIdx, sm, scanning, tag_translations, panel, picks>>
    /\ UNCHANGED <<playVars, calls, cur, matchVars, batchVars>>

\* db.addGame resolves: the next record is added, or after the last one
\* loadGames is awaited; or it rejects, and nothing catches it: the dialog
\* stays in the importing phase
addGameReturn(ok) ==
    /\ imp.pc = "addGame"
    /\ imp' = IF ~ok THEN [imp EXCEPT !.pc = "rejected"]
              ELSE [imp EXCEPT !.added = @ + 1,
                               !.pc = IF imp.added + 1 = Len(imp.toImport)
                                      THEN "loadGames" ELSE "addGame"]
    /\ UNCHANGED <<items, phase, activeIdx, sm, scanning, tag_translations, panel, picks>>
    /\ UNCHANGED <<playVars, calls, cur, matchVars, batchVars>>

\* loadGames is over (it catches its own errors): setShowScan(false) unmounts
\* the dialog, its state is dropped and what its calls still set is ignored
loadGamesReturn ==
    /\ imp.pc = "loadGames"
    /\ imp' = [imp EXCEPT !.pc = "closed"]
    /\ items' = <<>>
    /\ phase' = "select"
    /\ activeIdx' = NoIdx
    /\ panel' = IdlePanel
    /\ picks' = [s \in 1..MaxPicks |-> IF picks[s].pc = "idle" THEN IdlePick ELSE EndedPick]
    /\ sm' = IdleSm
    /\ scanning' = [active |-> FALSE, seen |-> {}]
    /\ UNCHANGED tag_translations
    /\ UNCHANGED <<playVars, calls, cur, matchVars, batchVars>>

NextReview ==
    \/ \E p \in Paths : scanReturn(p)
    \/ \E index \in 1..MaxItems : openPanel(index)
    \/ \E query \in PanelQueries : panelSearch(query)
    \/ \E res \in PanelResults, ok \in BOOLEAN : panelSearchReturn(res, ok)
    \/ \E k \in 1..2 : pickCandidate(k)
    \/ \E s \in 1..MaxPicks, found \in BOOLEAN :
           pickDetailReturn(s, found, IF found THEN Developers ELSE <<>>)
    \/ \E s \in 1..MaxPicks : pickDetailThrows(s)
    \/ \E s \in 1..MaxPicks, key \in ScanApiKeys, ok \in BOOLEAN : pickSettingReturn(s, key, ok)
    \/ \E s \in 1..MaxPicks :
           \E coverOk \in BOOLEAN, oks \in OkLists(picks[s].full),
              descOk \in BOOLEAN, tt \in AllTts(picks[s].full) :
               pickEnrichReturn(s, coverOk, oks, descOk, tt)
    \/ clearMatch
    \/ handleImport
    \/ \E ok \in BOOLEAN : addGameReturn(ok)
    \/ loadGamesReturn

(***************************************************************************)
(* Part 7: setTagTranslations as a function of the table and the batch     *)
(***************************************************************************)
Pair(en, zh) == [en |-> en, zh |-> zh]
Pairs == {Pair(en, zh) : en \in Tags, zh \in Zhs}
Batches == SeqsUpTo(Pairs, MaxPairs)

\* for (const { en, zh } of pairs) await d.execute(INSERT ... ON CONFLICT ...):
\* every statement resolves (a rejected one is storePair's business)
RECURSIVE setTagTranslationsReversed(_, _)
setTagTranslationsReversed(table, pairs) ==
    IF pairs = <<>> THEN table
    ELSE LET n == Len(pairs)
         IN setTagTranslationsReversed(Upsert(table, pairs[n].en, pairs[n].zh),
                                       SubSeq(pairs, 1, n - 1))
RECURSIVE setTagTranslations(_, _)
setTagTranslations(table, pairs) ==
    IF pairs = <<>> THEN table
    ELSE setTagTranslations(Upsert(table, Head(pairs).en, Head(pairs).zh), Tail(pairs))

NoBatch == [pairs |-> <<>>, before |-> <<>>, once |-> <<>>, runs |-> 0]

\* setTagTranslations(pairs) is applied to the table, again and again
applyBatch ==
    /\ sb.runs < MaxRuns
    /\ tag_translations' = setTagTranslations(tag_translations, sb.pairs)
    /\ sb' = [sb EXCEPT !.runs = @ + 1,
                        !.once = IF sb.runs = 0 THEN tag_translations' ELSE @]
    /\ UNCHANGED <<playVars, calls, cur, scanVars, matchVars, reviewVars, fx>>

NextBatch == applyBatch

(***************************************************************************)
(* Part 8: the functions of vndb.ts, called on any arguments               *)
(***************************************************************************)
NoCall == [fn |-> "none"]

\* VndbTag values: ratings around the 1.5 limit, two of them equal; spoiler
\* levels 0 and 1; the ero category
TagPool ==
    {Tag("a", 20, 0, "cont"), Tag("b", 15, 0, "cont"), Tag("c", 14, 0, "cont"),
     Tag("d", 30, 0, "ero"), Tag("e", 25, 1, "cont"), Tag("f", 20, 0, "tech")}

\* extractTags(tags, maxSpoiler, maxCount) returns
extractTagsCall ==
    /\ fx.fn = "extractTags"
    /\ ~fx.done
    /\ fx' = [fx EXCEPT !.out = extractTags(fx.tags, fx.maxSpoiler, fx.maxCount),
                        !.done = TRUE]
    /\ UNCHANGED <<playVars, tagVars, scanVars, matchVars, reviewVars, sb>>

NextExtract == extractTagsCall

(***************************************************************************)
(* Specifications                                                          *)
(***************************************************************************)
Init ==
    /\ InitPlay
    /\ InitCalls
    /\ tag_translations = <<>>
    /\ InitScan
    /\ InitMatch
    /\ InitReview
    /\ sb = NoBatch
    /\ fx = NoCall

\* the persisted cache table may hold anything when translateTags is called
InitTags ==
    /\ InitPlay
    /\ InitCalls
    /\ tag_translations \in CacheContents
    /\ InitScan
    /\ InitMatch
    /\ InitReview
    /\ sb = NoBatch
    /\ fx = NoCall

\* the match dialog may be opened for any entry of the library
InitApply ==
    /\ InitPlay
    /\ InitCalls
    /\ tag_translations = <<>>
    /\ InitScan
    /\ gameRow \in DialogGames
    /\ vndbMatchGame = NullGame
    /\ md = ClosedMd
    /\ applyCount = 0
    /\ InitReview
    /\ sb = NoBatch
    /\ fx = NoCall

\* the items startMatching leaves behind: an item whose search threw, one with
\* no candidate, one matched to the full record of V1 (no credential, every
\* download succeeded)
AllOk(vn) == [j \in DOMAIN safeScreenshots(vn) |-> TRUE]
StoredItem(d, vn, res) ==
    StoreMatch(<<SetMatching(<<NewItem(d)>>, 1)[1]>>, 1, vn, res,
               coverPromise(vn, TRUE, ""), screenshotsPromise(vn, AllOk(vn)),
               descPromise(vn, "", TRUE), tagsPromise(vn, "", <<>>, NoTt).result)[1]
ItemOutcomesOf(d) ==
    {CatchItem(<<SetMatching(<<NewItem(d)>>, 1)[1]>>, 1, "search error")[1],
     StoredItem(d, NullVn, <<>>),
     StoredItem(d, DetailOf(V1, Developers), <<V1>>)}
ItemOutcomes == UNION {ItemOutcomesOf(Detected(p)) : p \in Paths}

\* the review phase starts when startMatching has stored the outcome of every
\* item it was started on; a handleAddFolders call started before it may
\* still await scan_games
InitReviewPhase ==
    /\ InitPlay
    /\ InitCalls
    /\ tag_translations = <<>>
    /\ InitMatch
    /\ InitReview
    /\ sb = NoBatch
    /\ fx = NoCall
    /\ \E n \in 1..MaxItems : items \in [1..n -> ItemOutcomes]
    /\ \A k \in DOMAIN items : items[k].detected = Detected(k)
    /\ phase = "review"
    /\ activeIdx = 1
    /\ sm = [IdleSm EXCEPT !.pc = "done", !.i = Len(items), !.total = Len(items)]
    /\ \/ scanning = [active |-> FALSE, seen |-> {}]
       \/ /\ Len(items) < MaxItems
          /\ scanning = [active |-> TRUE, seen |-> 1..Len(items)]

Spec == Init /\ [][Next]_vars
SpecClose == Init /\ [][NextClose]_vars

\* every external call that is awaited settles: the invoke of scan_games,
\* db.getSetting, searchVn, getVnById, the Promise.all of the sub-tasks, and
\* the timer of the delay fires. The user's clicks are under no obligation.
CallSettles ==
    \/ \E p \in Paths : scanReturn(p)
    \/ \E key \in ScanApiKeys, ok \in BOOLEAN : getSettingReturn(key, ok)
    \/ \E res \in SearchResults : searchReturn(res)
    \/ searchThrows("search error")
    \/ \E found \in BOOLEAN : detailReturn(found, IF found THEN Developers ELSE <<>>)
    \/ detailThrows("detail error")
    \/ \E coverOk \in BOOLEAN, oks \in OkLists(sm.vn), descOk \in BOOLEAN, tt \in AllTts(sm.vn) :
           enrichReturn(coverOk, oks, descOk, tt)
    \/ delayElapsed
SpecLive == Init /\ [][Next]_vars /\ WF_vars(CallSettles)
SpecPlay == Init /\ [][NextPlay]_vars
SpecLaunch == Init /\ [][NextLaunch]_vars
SpecTags == InitTags /\ [][NextTags]_vars
SpecWriters == InitTags /\ [][NextWriters]_vars

\* setTagTranslations on any table and any batch
InitBatch ==
    /\ InitPlay
    /\ InitCalls
    /\ tag_translations \in CacheContents
    /\ InitScan
    /\ InitMatch
    /\ InitReview
    /\ \E pairs \in Batches : sb = [NoBatch EXCEPT !.pairs = pairs, !.before = tag_translations]
    /\ fx = NoCall
SpecBatch == InitBatch /\ [][NextBatch]_vars

\* extractTags on any tag list, spoiler threshold and count
InitExtract ==
    /\ InitPlay
    /\ InitCalls
    /\ tag_translations = <<>>
    /\ InitScan
    /\ InitMatch
    /\ InitReview
    /\ sb = NoBatch
    /\ \E tags \in SeqsUpTo(TagPool, MaxTagList), maxSpoiler \in {0, 1},
          maxCount \in (0..MaxCountArg) \cup {DefaultMaxCount} :
           fx = [fn |-> "extractTags", tags |-> tags, maxSpoiler |-> maxSpoiler,
                 maxCount |-> maxCount, out |-> <<>>, done |-> FALSE]
SpecExtract == InitExtract /\ [][NextExtract]_vars

\* VndbTitle values: the three Chinese languages, ja, en and ko; two entries
\* of one language; an empty text; primary flags
TitlePool ==
    {VndbTitle("zh-Hans", "s", FALSE), VndbTitle("zh-Hans", "s2", FALSE),
     VndbTitle("zh-Hant", "", FALSE), VndbTitle("zh", "z", FALSE),
     VndbTitle("ja", "j", FALSE), VndbTitle("ja", "j2", TRUE),
     VndbTitle("en", "e", TRUE), VndbTitle("ko", "k", TRUE)}

\* pickDisplayTitle(vn) returns
pickDisplayTitleCall ==
    /\ fx.fn = "pickTitles"
    /\ fx.display = NullTitle
    /\ fx' = [fx EXCEPT !.display = pickDisplayTitle(fx.vn)]
    /\ UNCHANGED <<playVars, tagVars, scanVars, matchVars, reviewVars, sb>>

\* pickOriginalTitle(vn) returns
pickOriginalTitleCall ==
    /\ fx.fn = "pickTitles"
    /\ fx.original = NullTitle
    /\ fx' = [fx EXCEPT !.original = pickOriginalTitle(fx.vn)]
    /\ UNCHANGED <<playVars, tagVars, scanVars, matchVars, reviewVars, sb>>

NextTitles ==
    \/ pickDisplayTitleCall
    \/ pickOriginalTitleCall

\* the title functions on any titles array and alternate title
InitTitles ==
    /\ InitPlay
    /\ InitCalls
    /\ tag_translations = <<>>
    /\ InitScan
    /\ InitMatch
    /\ InitReview
    /\ sb = NoBatch
    /\ \E titles \in SeqsUpTo(TitlePool, MaxTitles), alttitle \in {"", "alt"} :
           fx = [fn |-> "pickTitles",
                 vn |-> [title |-> "d", alttitle |-> alttitle, titles |-> titles],
                 display |-> NullTitle, original |-> NullTitle]
SpecTitles == InitTitles /\ [][NextTitles]_vars
SpecApply == InitApply /\ [][NextApply]_vars
SpecReview == InitReviewPhase /\ [][NextReview]_vars

(***************************************************************************)
(* Claims                                                                  *)
(***************************************************************************)

\* C1: for every library entry, in every reachable state (also between the
\* two statements of addPlaySession and after either of them failed),
\* total_playtime equals the sum of the durations of the entry's
\* play_sessions rows.
C1_PlaytimeIsSessionSum ==
    \A g \in DOMAIN games : games[g].total_playtime = SumSeq(SessionDurations(g))

\* C2: a call of translateTags that returns gives a list as long as its input
\* in which position i holds the cached value of tag i, the value the
\* translator gave for tag i, or tag i itself.
C2_OrderAndLength ==
    \A c \in 1..MaxCalls :
        calls[c].pc = "done" =>
            /\ Len(calls[c].result) = Len(calls[c].tags)
            /\ \A i \in DOMAIN calls[c].tags :
                  LET t == calls[c].tags[i]
                      r == calls[c].result[i]
                  IN \/ r = t
                     \/ t \in DOMAIN calls[c].hits /\ r = calls[c].hits[t]
                     \/ \E j \in DOMAIN calls[c].translated :
                            calls[c].uncached[j] = t /\ r = calls[c].translated[j]

\* a returned call of two different tags, the first served from the cache and
\* the second newly translated to another value
C2_Witness ==
    \E c \in 1..MaxCalls :
        /\ calls[c].pc = "done"
        /\ calls[c].outcome = "stored"
        /\ Len(calls[c].tags) = 2
        /\ calls[c].tags[1] \in DOMAIN calls[c].hits
        /\ calls[c].tags[2] \notin DOMAIN calls[c].hits
        /\ calls[c].result[1] = calls[c].hits[calls[c].tags[1]]
        /\ calls[c].result[1] # calls[c].tags[1]
        /\ calls[c].result[2] = calls[c].translated[1]
        /\ calls[c].result[2] \notin {calls[c].tags[2], calls[c].result[1]}

\* two calls made one after the other with the same tags and the same
\* non-empty credential, both returned
SameCallTwice(c) ==
    /\ calls[c].pc = "done"
    /\ calls[c + 1].pc = "done"
    /\ calls[c + 1].tags = calls[c].tags
    /\ calls[c + 1].apiKey = calls[c].apiKey
    /\ calls[c].apiKey # ""

ServedFromCache(c) ==
    /\ calls[c].invoked + calls[c + 1].invoked <= 1
    /\ calls[c + 1].invoked = 0
    /\ calls[c + 1].result = calls[c].result

C4_TranslatorFailure ==
    \A c \in 1..MaxCalls :
        calls[c].outcome = "throw" =>
            /\ calls[c].pc = "done"
            /\ calls[c].invoked = 1
            /\ Len(calls[c].result) = Len(calls[c].tags)
            /\ \A i \in DOMAIN calls[c].tags :
                  LET t == calls[c].tags[i]
                  IN calls[c].result[i] =
                         IF t \in DOMAIN calls[c].hits THEN calls[c].hits[t] ELSE t
            /\ c = cur => tag_translations = calls[c].dbBefore

\* C4 as amended: a cached tag whose cached translation is the empty string is
\* returned as its source text.
C4_TranslatorFailureNonEmpty ==
    \A c \in 1..MaxCalls :
        calls[c].outcome = "throw" =>
            /\ calls[c].pc = "done"
            /\ calls[c].invoked = 1
            /\ Len(calls[c].result) = Len(calls[c].tags)
            /\ \A i \in DOMAIN calls[c].tags :
                  LET t == calls[c].tags[i]
                  IN calls[c].result[i] =
                         IF t \in DOMAIN calls[c].hits /\ calls[c].hits[t] # ""
                         THEN calls[c].hits[t] ELSE t
            /\ c = cur => tag_translations = calls[c].dbBefore

\* the translator threw on a call with one cached and one uncached tag
C4_Witness ==
    \E c \in 1..MaxCalls :
        /\ calls[c].outcome = "throw"
        /\ calls[c].pc = "done"
        /\ \E i, j \in DOMAIN calls[c].tags :
              /\ calls[c].tags[i] \in DOMAIN calls[c].hits
              /\ calls[c].result[i] # calls[c].tags[i]
              /\ calls[c].tags[j] \notin DOMAIN calls[c].hits
              /\ calls[c].result[j] = calls[c].tags[j]

\* C5: a call invokes the translator at most once, only with a tag missing
\* from the cache and a non-blank credential, and with exactly the input tags
\* that missed the cache.
C5_TranslatorBatch ==
    \A c \in 1..MaxCalls :
        /\ calls[c].invoked <= 1
        /\ calls[c].invoked = 1 =>
              /\ calls[c].apiKey \notin {"", " "}
              /\ \E i \in DOMAIN calls[c].tags : calls[c].tags[i] \notin DOMAIN calls[c].hits
              /\ calls[c].batch =
                     SelectSeq(calls[c].tags, LAMBDA t : t \notin DOMAIN calls[c].hits)

\* the translator was invoked for a list with a cached tag in it
C5_Witness ==
    \E c \in 1..MaxCalls :
        /\ calls[c].invoked = 1
        /\ Len(calls[c].batch) = 1
        /\ Len(calls[c].tags) = 2
        /\ \E i \in DOMAIN calls[c].tags : calls[c].tags[i] \in DOMAIN calls[c].hits

\* the step of startMatching that ends the processing of item sm.i, and the
\* outcome it logs
ItemEnds == Len(sm'.log) = Len(sm.log) + 1
Ended == sm'.log[Len(sm'.log)]

\* C6: an exception raised while item i is processed sets item i to failed
\* with the exception detail as its error, changes no other item, and the
\* loop goes on: to the delay before item i + 1, or to its end after the last
\* item, by when every item has been processed.
C6_ExceptionFailsOnlyThatItem ==
    [][(ItemEnds /\ Ended.exc # "") =>
          /\ Len(sm'.log) = sm.i
          /\ DOMAIN items' = DOMAIN items
          /\ items'[sm.i].status = "failed"
          /\ items'[sm.i].error.detail = Ended.exc
          /\ \A k \in DOMAIN items : k # sm.i => items'[k] = items[k]
          /\ sm'.i = sm.i
          /\ sm'.pc = IF sm.i < sm.total THEN "delay" ELSE "done"
          /\ sm'.pc = "done" => Len(sm'.log) = sm'.total]_vars

\* an item failed by an exception, and a later item matched
C6_Witness ==
    \E k, n \in DOMAIN sm.log :
        /\ k < n
        /\ sm.log[k].exc # ""
        /\ items[k].status = "failed"
        /\ items[k].error.detail = sm.log[k].exc
        /\ sm.log[n].exc = ""
        /\ items[n].status = "matched"

\* C7: when the processing of an item ends without an exception, the item is
\* matched exactly when the search gave a candidate; otherwise it is failed
\* with the no-match message and no matched record.
C7_MatchedIffCandidate ==
    [][(ItemEnds /\ Ended.exc = "") =>
          /\ items'[sm.i].status = "matched" <=> Ended.nres > 0
          /\ Ended.nres > 0 =>
                /\ items'[sm.i].vndb.id = sm.res[1].id
                /\ items'[sm.i].error = NoError
          /\ Ended.nres = 0 =>
                /\ items'[sm.i].status = "failed"
                /\ items'[sm.i].error = NoMatchError
                /\ items'[sm.i].vndb = NullVn]_vars

\* one item matched on a candidate and another failed for want of one
C7_Witness ==
    \E k, n \in DOMAIN sm.log :
        /\ sm.log[k].exc = "" /\ sm.log[k].nres > 0
        /\ items[k].status = "matched" /\ items[k].vndb.id # ""
        /\ sm.log[n].exc = "" /\ sm.log[n].nres = 0
        /\ items[n].status = "failed" /\ items[n].error = NoMatchError

\* C8: when the search gave a candidate and the detail fetch for the first
\* one fails (it finds no record, or it throws), the item is matched with the
\* summary record of that candidate.
C8_DetailFailureFallsBack ==
    [][(ItemEnds /\ Ended.nres > 0 /\ Ended.detail \in {"null", "throw"}) =>
          /\ items'[sm.i].status = "matched"
          /\ items'[sm.i].vndb = sm.res[1]]_vars

\* the ids of the downloads of a log entry that resolved, in order
RECURSIVE OkIds(_)
OkIds(shots) ==
    IF shots = <<>> THEN <<>>
    ELSE (IF Head(shots).ok THEN <<Head(shots).id>> ELSE <<>>) \o OkIds(Tail(shots))

\* C9: for an item whose record was found, whatever sub-tasks fail the item is
\* matched, a failed sub-task leaves its own field at its default (no cover,
\* the download left out, the cleaned description, the untranslated tags) and
\* the other sub-tasks' results are stored.
C9_SubTaskFailureDegradesOneField ==
    [][(ItemEnds /\ Ended.exc = "" /\ Ended.nres > 0) =>
          LET it == items'[sm.i]
              vndbTags == extractTags(sm.vn.tags, DefaultMaxSpoiler, DefaultMaxCount)
          IN /\ it.status = "matched"
             /\ it.vndb = sm.vn
             /\ Ended.cover = "fail" => it.coverPath = ""
             /\ Ended.cover = "ok" => it.coverPath = sm.vn.id
             /\ it.screenshotPaths = OkIds(Ended.shots)
             /\ Ended.desc = "fail" => it.translatedDesc = cleanDescription(sm.vn.description)
             /\ Ended.desc = "ok" => it.translatedDesc = Translated(sm.vn.description)
             /\ Ended.tags = "raise" => it.translatedTags = vndbTags
             /\ Ended.tags = "ok" => Len(it.translatedTags) = Len(vndbTags)]_vars

\* a matched item whose cover download failed while its screenshot,
\* description and tags came through
C9_Witness ==
    \E k \in DOMAIN sm.log :
        /\ sm.log[k].cover = "fail" /\ sm.log[k].desc = "ok" /\ sm.log[k].tags = "ok"
        /\ items[k].status = "matched"
        /\ items[k].coverPath = ""
        /\ items[k].screenshotPaths # <<>>
        /\ items[k].translatedDesc = Translated(items[k].vndb.description)
        /\ items[k].translatedTags = <<"x">>

\* C10: the screenshot sub-task of handleApply gives exactly the local paths
\* of the downloads that resolved, in the order of the screenshots they were
\* requested for, whichever of them were rejected.
C10_ScreenshotsThatSucceeded ==
    md.pc = "saving" =>
        /\ md.screenshotPaths = OkIds(md.out.shots)
        /\ Len(md.screenshotPaths) > 0 => md.update.screenshots = md.screenshotPaths

\* four downloads were requested, one was rejected and the three others'
\* paths were returned
C10_Witness ==
    /\ md.pc = "saving"
    /\ Len(md.out.shots) = MaxScreenshots
    /\ \E j \in DOMAIN md.out.shots :
          /\ ~md.out.shots[j].ok
          /\ \A k \in DOMAIN md.out.shots : k # j => md.out.shots[k].ok
    /\ Len(md.screenshotPaths) = MaxScreenshots - 1
    /\ md.update.screenshots = md.screenshotPaths


(***************************************************************************)
(* Claims on the review phase and the import (SpecReview)                  *)
(***************************************************************************)
\* the step in which handleImport builds the records and hands them over
Commits == phase = "review" /\ phase' = "importing"

\* item it has no matched record and r is built from its detected folder
\* metadata only
DetectedOnly(it, r) ==
    /\ r.title = it.detected.title
    /\ r.exe_path = it.detected.exe_path
    /\ r.install_path = it.detected.install_path
    /\ r.engine = it.detected.engine
    /\ r.vndb_id = "" /\ r.title_original = "" /\ r.developer = "" /\ r.release_date = ""
    /\ r.cover_path = "" /\ r.screenshots = <<>> /\ r.tags = <<>> /\ r.notes = ""
    /\ r.vndb_rating = 0

\* C11: at commit, every item that has no matched record (nothing found, its
\* processing failed, or its match was cleared by hand after an earlier
\* match) yields a record built from the detected folder metadata only, with
\* every catalog-derived field empty.
C11_UnmatchedImportsDetectedOnly ==
    [][Commits =>
        \A k \in DOMAIN items :
            items[k].vndb = NullVn => DetectedOnly(items[k], imp'.toImport[k])]_vars

\* C12: clearing the match of the active item sets its matched record to
\* null and its status to failed with the 'manually skipped' message, and
\* changes no other item.
C12_ClearMatchFrame ==
    [][clearMatch =>
        /\ DOMAIN items' = DOMAIN items
        /\ items'[activeIdx].vndb = NullVn
        /\ items'[activeIdx].status = "failed"
        /\ items'[activeIdx].error = ManuallySkipped
        /\ \A k \in DOMAIN items : k # activeIdx => items'[k] = items[k]]_vars
\* a match was cleared next to an item that is still matched
C12_Witness ==
    \E k, j \in DOMAIN items :
        /\ items[k].error = ManuallySkipped /\ items[k].vndb = NullVn
        /\ j # k /\ items[j].status = "matched"

\* pickCandidate call s stores its result in this step
PickCompletes(s) == Mounted' /\ picks[s].pc = "enrich" /\ picks'[s].pc = "ended"

\* it holds what the sub-tasks give for record vn
EnrichedFrom(it, vn) ==
    /\ it.vndb = vn
    /\ it.coverPath \in {"", coverPromise(vn, TRUE, "")}
    /\ \A j \in DOMAIN it.screenshotPaths :
           \E m \in DOMAIN safeScreenshots(vn) : it.screenshotPaths[j] = safeScreenshots(vn)[m].id
    /\ it.translatedDesc \in {descPromise(vn, "", TRUE), descPromise(vn, "k", TRUE)}
    /\ Len(it.translatedTags) = Len(extractTags(vn.tags, DefaultMaxSpoiler, DefaultMaxCount))

\* C13: picking a candidate for the active item re-runs the detail fetch and
\* the enrichment for that item only: when the call completes, the record,
\* cover, screenshots, description and tags of the item that was active when
\* the candidate was picked are overwritten with the results for the picked
\* candidate and its status is matched, and every other item stays as it
\* was; the steps before that change no item.
C13_PickOverwritesOneItem ==
    [][\A s \in 1..MaxPicks :
          (Mounted' /\ [picks'[s] EXCEPT !.stale = picks[s].stale] # picks[s]) =>
              IF PickCompletes(s)
              THEN LET idx == picks[s].idx
                   IN /\ DOMAIN items' = DOMAIN items
                      /\ idx \in DOMAIN items
                      /\ picks[s].full.id = picks[s].vn.id
                      /\ EnrichedFrom(items'[idx], picks[s].full)
                      /\ items'[idx].status = "matched"
                      /\ items'[idx].detected = items[idx].detected
                      /\ \A k \in DOMAIN items : k # idx => items'[k] = items[k]
              ELSE items' = items]_vars
\* a pick has replaced a record by V2, found by a panel search, next to
\* another item
C13_Witness ==
    /\ Len(items) = 2
    /\ \E s \in 1..MaxPicks : picks[s].pc = "ended"
    /\ \E k \in DOMAIN items :
           items[k].vndb.id = "v2" /\ items[k].status = "matched" /\ items[k].candidates # <<>>

\* the status changes of the lifecycle
\* pending -> matching -> {matched | failed} -> importing -> done
Follows(a, b) ==
    \/ a = "pending" /\ b = "matching"
    \/ a = "matching" /\ b \in {"matched", "failed"}
    \/ a \in {"matched", "failed"} /\ b \in {"matched", "failed", "importing"}
    \/ a = "importing" /\ b = "done"

\* C14: every status change of an item follows pending -> matching ->
\* {matched | failed} -> (a manual pick or clear moves between matched and
\* failed) -> importing -> done: no item goes from pending straight to
\* matched, failed, importing or done, none returns to pending or matching,
\* none leaves done.
C14_StatusLifecycle ==
    [][\A k \in DOMAIN items :
          (k \in DOMAIN items' /\ items'[k].detected = items[k].detected
              /\ items'[k].status # items[k].status)
          => Follows(items[k].status, items'[k].status)]_vars

\* C15: when the user confirms the import in the review phase and the
\* persistence succeeds, every item's status becomes importing and then done:
\* by the time the last record has been added, no item is left in an earlier
\* status.
C15_ImportAdvancesStatus ==
    [][(imp.pc = "addGame" /\ imp'.pc = "loadGames") =>
          \A k \in DOMAIN items' : items'[k].status \in {"importing", "done"}]_vars

(***************************************************************************)
(* Claims on the bulk matching (Spec), continued                           *)
(***************************************************************************)
\* C16: the bulk matching is strictly sequential: at most one item has status
\* matching at any time, and while the search, detail fetch or enrichment of
\* item i is awaited, every item before i has reached matched or failed.
C16_SequentialMatching ==
    /\ Cardinality({k \in DOMAIN items : items[k].status = "matching"}) <= 1
    /\ sm.pc \in {"search", "detail", "enrich"} =>
           /\ items[sm.i].status = "matching"
           /\ \A k \in 1..(sm.i - 1) : items[k].status \in {"matched", "failed"}
           /\ \A k \in (sm.i + 1)..Len(items) : items[k].status = "pending"
\* the search of the second item is awaited
C16_Witness ==
    /\ sm.pc = "search" /\ sm.i = 2
    /\ items[1].status \in {"matched", "failed"}
    /\ items[2].status = "matching"

(***************************************************************************)
(* Claims on the review phase (SpecReview), continued                      *)
(***************************************************************************)
\* what an item holds of the catalog
Attributed(it) ==
    <<it.vndb, it.candidates, it.coverPath, it.screenshotPaths, it.translatedDesc,
      it.translatedTags>>

\* the step stores at item k the outcome of the search startMatching ran for
\* the title of item k
BulkStores(k) ==
    /\ sm.pc = "enrich" /\ sm'.pc # "enrich"
    /\ k = sm.i
    /\ sm.query = items[k].detected.title
    /\ items'[k].candidates = sm.res
    /\ items'[k].vndb.id = (IF sm.res = <<>> THEN "" ELSE sm.res[1].id)
    /\ sm.vn.id = items'[k].vndb.id
    /\ EnrichedFrom(items'[k], sm.vn)

\* the step stores at item k the outcome of pickCandidate call s, which was
\* made while k was the active item
PickStores(s, k) ==
    /\ PickCompletes(s)
    /\ k = picks[s].idx
    /\ items'[k].candidates = items[k].candidates
    /\ picks[s].full.id = picks[s].vn.id
    /\ EnrichedFrom(items'[k], picks[s].full)

\* the step clears the match of item k, the active item
Clears(k) ==
    /\ k = activeIdx
    /\ items'[k].vndb = NullVn
    /\ items'[k].candidates = items[k].candidates

\* C17: the results stay attributed to the right item under every
\* interleaving of the bulk matching, selection changes and picks: a step
\* changes what an item holds of the catalog (record, candidate list,
\* enrichment) only by storing the outcome of the search run for that item's
\* title, by storing the outcome of a candidate picked while that item was
\* the active item, or by clearing the match of the active item; a pick is
\* made on the active item with a candidate of the panel.
C17_ResultsAttributed ==
    [][/\ \A k \in DOMAIN items :
              (k \in DOMAIN items' /\ Attributed(items'[k]) # Attributed(items[k])) =>
                  \/ BulkStores(k)
                  \/ \E s \in 1..MaxPicks : PickStores(s, k)
                  \/ Clears(k)
       /\ \A s \in 1..MaxPicks :
              (picks[s].pc = "idle" /\ picks'[s].pc = "detail") =>
                  /\ picks'[s].idx = activeIdx
                  /\ \E j \in DOMAIN panel.results : panel.results[j] = picks'[s].vn]_vars
\* a pick made on the first item has stored its outcome there after the
\* second item was opened in the panel
C17_Witness ==
    /\ Len(items) = 2
    /\ activeIdx = 2
    /\ items[1].vndb.id = "v2" /\ items[1].candidates = <<>>
    /\ \E s \in 1..MaxPicks : picks[s].pc = "ended"

(***************************************************************************)
(* Claims on the translation cache under concurrent writers (SpecWriters)  *)
(***************************************************************************)
\* the row of key e in table t: its value, or none
Row(t, e) == IF e \in DOMAIN t THEN <<t[e]>> ELSE <<>>

\* call c executes a persistence call in this step, and it succeeds
Writes(c) ==
    /\ calls[c].pc = "store"
    /\ calls'[c] # calls[c]
    /\ calls'[c].outcome # "storefail"

\* C18: tag-translation tasks that write the cache concurrently, interleaved
\* at every persistence call: a write leaves its key with exactly the value
\* it wrote, whatever row another writer had put there (last write wins, no
\* corruption), and leaves every other key as it was; no other step changes
\* the table. So when all writers have finished each key holds the value of
\* the write executed last for it, and untouched keys are unchanged.
C18_ConcurrentWritesLastWins ==
    [][/\ \A c \in 1..MaxCalls :
              Writes(c) =>
                  LET en == calls[c].uncached[calls[c].k]
                      zh == calls[c].translated[calls[c].k]
                  IN /\ Row(tag_translations', en) = <<zh>>
                     /\ \A e \in Tags : e # en =>
                            Row(tag_translations', e) = Row(tag_translations, e)
       /\ (\A c \in 1..MaxCalls : ~Writes(c)) => tag_translations' = tag_translations]_vars
\* two writers have finished after writing the same key with different
\* values, the second one over the row of the first; a key none of them
\* wrote is still there
C18_Witness ==
    /\ calls[1].outcome = "stored" /\ calls[2].outcome = "stored"
    /\ calls[2].pc = "done" /\ calls[1].pc = "done"
    /\ "a" \in DOMAIN calls[1].dbBefore
    /\ \E i \in DOMAIN calls[1].uncached, j \in DOMAIN calls[2].uncached :
           /\ calls[1].uncached[i] = "b" /\ calls[2].uncached[j] = "b"
           /\ calls[1].translated[i] # calls[2].translated[j]
           /\ tag_translations["b"] = calls[1].translated[i]
    /\ tag_translations["a"] = calls[1].dbBefore["a"]

(***************************************************************************)
(* Claims on setTagTranslations (SpecBatch)                                *)
(***************************************************************************)
\* the positions of the batch that name key e
Naming(pairs, e) == {i \in DOMAIN pairs : pairs[i].en = e}
Last(I) == CHOOSE i \in I : \A j \in I : j <= i

\* C19: setTagTranslations is idempotent with last-write-per-key-wins:
\* applying the same batch twice gives the table that applying it once gives;
\* a key the batch names, once or several times, is left with the value of
\* the last pair naming it; a key the batch does not name keeps its row, or
\* stays without one.
C19_BatchIdempotentLastWins ==
    sb.runs >= 1 =>
        /\ tag_translations = sb.once
        /\ \A e \in Tags :
               IF Naming(sb.pairs, e) # {}
               THEN Row(tag_translations, e) = <<sb.pairs[Last(Naming(sb.pairs, e))].zh>>
               ELSE Row(tag_translations, e) = Row(sb.before, e)
\* a batch that names one key twice, with two values, has been applied twice
\* to a table that holds a row for the other key
C19_Witness ==
    /\ sb.runs = 2
    /\ Len(sb.pairs) = 2
    /\ sb.pairs[1].en = sb.pairs[2].en /\ sb.pairs[1].zh # sb.pairs[2].zh
    /\ \E e \in DOMAIN sb.before : e # sb.pairs[1].en /\ e \in DOMAIN tag_translations

(***************************************************************************)
(* Claims on the match dialog (SpecApply), continued                       *)
(***************************************************************************)
\* C20: applying a catalog match to an entry whose notes are not empty leaves
\* the notes as they are, whatever the description of the record, the
\* credential and the outcome of a translation would be, and calls no
\* description translation: the update carries the entry's notes, and the
\* saved row has the notes it had.
C20_NotesKept ==
    [][/\ (vndbMatchGame.notes # "" /\ md.pc = "enrich" /\ md'.pc = "saving") =>
              /\ md'.update.notes = vndbMatchGame.notes
              /\ md'.out.desc = "none"
       /\ (md.pc = "saving" /\ gameRow.notes # "") => gameRow'.notes = gameRow.notes]_vars
\* a record with a description is about to be saved over an entry with notes,
\* with the credential set
C20_Witness ==
    /\ md.pc = "saving"
    /\ vndbMatchGame.notes # ""
    /\ md.apiKey # "" /\ md.vn.description # ""
    /\ md.update.notes = vndbMatchGame.notes
    /\ md.update.vndb_id = md.vn.id

(***************************************************************************)
(* Claims on the commit of the import (SpecReview)                         *)
(***************************************************************************)
\* C21: the commit hands the whole batch to the persistence with no partial
\* commit: when the persistence fails while the batch is being written, the
\* library is left as it was, no proper subset of the batch has been
\* persisted.
C21_NoPartialCommit ==
    imp.pc = "rejected" => imp.added = 0

(***************************************************************************)
(* Claims on closing the import dialog during the matching (SpecClose)     *)
(***************************************************************************)
\* C22: after the import dialog has been closed while the bulk matching is in
\* progress, no external call is issued for an item whose processing had not
\* started: the loop does not go on to the search of a further item.
C22_NoCallsAfterClose ==
    [][~Mounted => ~(sm'.pc = "search" /\ sm'.i > sm.i)]_vars

(***************************************************************************)
(* Claims on the functions of vndb.ts (SpecExtract, SpecTitles)            *)
(***************************************************************************)
\* the positions of the tags extractTags has to keep
Kept(tags, maxSpoiler) ==
    {i \in DOMAIN tags :
        tags[i].spoiler <= maxSpoiler /\ tags[i].category # "ero" /\ tags[i].rating >= MinTagRating}
MinOf(a, b) == IF a < b THEN a ELSE b

\* C23: for every tag list, spoiler threshold and count, extractTags returns
\* the names of exactly the tags with spoiler level at most the threshold,
\* category not adult and rating at least 1.5, in descending order of rating,
\* cut to the first maxCount: out is the names of min(kept, maxCount)
\* different kept tags, their ratings descend, and no kept tag that was left
\* out has a higher rating than one that is in.
C23_ExtractTags ==
    (fx.fn = "extractTags" /\ fx.done) =>
        LET kept == Kept(fx.tags, fx.maxSpoiler)
            out == fx.out
        IN /\ Len(out) = MinOf(Cardinality(kept), fx.maxCount)
           /\ Len(out) <= fx.maxCount
           /\ \E f \in [DOMAIN out -> kept] :
                  /\ \A j, m \in DOMAIN out : j # m => f[j] # f[m]
                  /\ \A j \in DOMAIN out : out[j] = fx.tags[f[j]].name
                  /\ \A j, m \in DOMAIN out :
                         j < m => fx.tags[f[j]].rating >= fx.tags[f[m]].rating
                  /\ \A i \in kept : (\A j \in DOMAIN out : f[j] # i) =>
                         \A j \in DOMAIN out : fx.tags[f[j]].rating >= fx.tags[i].rating
\* three tags pass the filter, in ascending order of rating, and the result
\* is cut to two
C23_Witness ==
    /\ fx.fn = "extractTags" /\ fx.done
    /\ fx.maxCount = 2
    /\ fx.tags = <<Tag("b", 15, 0, "cont"), Tag("a", 20, 0, "cont"), Tag("e", 25, 1, "cont")>>
    /\ fx.maxSpoiler = 1
    /\ fx.out = <<"e", "a">>

\* no two entries of the array have the same language, and at most one is
\* flagged primary
OneEach(titles) ==
    \A i, j \in DOMAIN titles :
        i # j => /\ titles[i].lang # titles[j].lang
                 /\ ~(titles[i].main /\ titles[j].main)
Present(titles, lang) == \E i \in DOMAIN titles : titles[i].lang = lang
TextsIn(titles, lang) == {titles[i].title : i \in {k \in DOMAIN titles : titles[k].lang = lang}}
TextsMain(titles) == {titles[i].title : i \in {k \in DOMAIN titles : titles[k].main}}
Reordered(titles) ==
    {[i \in DOMAIN titles |-> titles[p[i]]] :
        p \in {q \in [DOMAIN titles -> DOMAIN titles] :
                  \A i, j \in DOMAIN titles : i # j => q[i] # q[j]}}
\* the language the display title is to come from: the first of zh-Hans,
\* zh-Hant, zh that is present, "" if none is
DisplayLang(titles) ==
    IF Present(titles, "zh-Hans") THEN "zh-Hans"
    ELSE IF Present(titles, "zh-Hant") THEN "zh-Hant"
    ELSE IF Present(titles, "zh") THEN "zh"
    ELSE ""
DisplayStated(vn, display, total) ==
    LET lang == DisplayLang(vn.titles)
        texts == TextsIn(vn.titles, lang)
    IN IF lang # "" /\ (total \/ texts # {""})
       THEN display \in texts
       ELSE display = vn.title
OriginalStated(vn, original) ==
    LET ja == TextsIn(vn.titles, "ja")
        main == TextsMain(vn.titles)
    IN IF ja # {} THEN original \in ja
       ELSE IF vn.alttitle # "" THEN original = vn.alttitle
       ELSE IF main # {} THEN original \in main
       ELSE original = ""
TitlesDone == fx.fn = "pickTitles" /\ fx.display # NullTitle /\ fx.original # NullTitle
OrderFree ==
    \A titles \in Reordered(fx.vn.titles) :
        /\ pickDisplayTitle([fx.vn EXCEPT !.titles = titles]) = fx.display
        /\ pickOriginalTitle([fx.vn EXCEPT !.titles = titles]) = fx.original

FirstSafe(vn) ==
    LET safe == {i \in DOMAIN vn.screenshots :
                    vn.screenshots[i].sexual < 1 /\ vn.screenshots[i].violence < 1}
    IN {i \in safe : Cardinality({j \in safe : j < i}) < 4}
FirstSafeIds(vn) == {vn.screenshots[i].id : i \in FirstSafe(vn)}
PathsStated(vn, paths) ==
    /\ Len(paths) <= 4
    /\ \A j \in DOMAIN paths : paths[j] \in FirstSafeIds(vn)
    /\ \A j, k \in DOMAIN paths : j # k => paths[j] # paths[k]

C26_StatusAgreesWithRecord ==
    \A i \in DOMAIN items :
        /\ items[i].status = "matched" <=> items[i].vndb # NullVn
        /\ items[i].status = "failed" => items[i].error # NoError
        /\ items[i].status = "matched" => items[i].error = NoError
\* a failed item that a pick made matched, beside an item whose match was
\* cleared by hand
C26_Witness ==
    /\ Len(items) = 2
    /\ \E s \in 1..MaxPicks : picks[s].pc = "ended"
    /\ \E i, j \in DOMAIN items :
          /\ items[i].status = "matched" /\ items[i].vndb # NullVn /\ items[i].error = NoError
          /\ items[i].candidates = <<>>
          /\ items[j].status = "failed" /\ items[j].vndb = NullVn
          /\ items[j].error = ManuallySkipped

(***************************************************************************)
(* Claims on the end of bulk matching (SpecLive)                           *)
(***************************************************************************)
MatchingStarted == sm.pc = "getSetting" /\ Len(items) > 0
InReview ==
    /\ phase = "review"
    /\ \A i \in DOMAIN items : items[i].status \in {"matched", "failed"}

\* C27: once bulk matching is started on a non-empty list, and every
\* external call eventually returns or fails, the dialog eventually reaches
\* review, and then every item is matched or failed, none pending or matching.
C27_MatchingReachesReview == MatchingStarted ~> InReview

\* what does hold: once the API key has been read, the dialog reaches review
\* and the items matching was started on are matched or failed
KeyRead == sm.pc = "search" /\ sm.i = 1
StartedItemsSettled ==
    /\ phase = "review"
    /\ \A i \in 1..sm.total : items[i].status \in {"matched", "failed"}
C27_AfterKeyRead == KeyRead ~> StartedItemsSettled

(***************************************************************************)
(* Claims on actions of the user that overlap a pick (SpecReview)          *)
(***************************************************************************)
\* C28: when the user picks a candidate for an item and then, before that
\* pick's enrichment completes, picks another candidate for the item or
\* clears its match, the item ends as the last action left it: the
\* completion of the earlier pick does not change it.
C28_LastActionWins ==
    [][\A s \in 1..MaxPicks :
          (PickCompletes(s) /\ picks[s].stale) =>
              items'[picks[s].idx] = items[picks[s].idx]]_vars

C30_NoLaunchWhileRunning ==
    [][/\ runningGameId # NoGame =>
              /\ launching' \subseteq launching
              /\ direct' \subseteq direct
       /\ (runningGameId # NoGame /\ runningGameId' = NoGame) =>
              \E h \in 1..MaxEvents : listeners[h].pc = "clear" /\ listeners'[h].pc = "done"]_vars

====
